---------------------------- MODULE Spec2Model ----------------------------
(***************************************************************************)
(* A model of the software side of the Swarm runtime: the software         *)
(* priority queue (swtasks.h), the sequential back-end (seq_runtime.h,     *)
(* seq_tasks.h), the oracle back-end with its stack of domain queues       *)
(* (oracle_runtime.h, oracle_tasks.h), the TLS back-end (tls_runtime.h),   *)
(* the spillers and requeuers of the hardware back-end (spillers.h), and   *)
(* the algorithms enqueue_all (enqueue_all.h) and reduce (reduce.h).       *)
(*                                                                         *)
(* Timestamps are uint64_t in the source.  The model draws them from       *)
(* 0..MaxTs and keeps the sentinel UINT64_MAX as a value above all of      *)
(* them; no arithmetic is done on timestamps, so only their order and the  *)
(* identity of the sentinel matter.                                        *)
(***************************************************************************)
EXTENDS Integers, Sequences, FiniteSets, Bags, TLC

\* ------------------------------------------------------------------ bounds
\* Largest timestamp a task is enqueued with.
MaxTs == 2
\* Total number of tasks enqueued in one run (by main and by tasks) of the
\* sequential back-end.
MaxTasks == 4
\* Total number of tasks enqueued in one run of the oracle back-end.
MaxOracleTasks == 3
\* Number of deepen() calls in one run of the oracle back-end.
MaxDeepen == 2
\* Number of pushes applied to a priority queue exercised on its own.
MaxPushes == 5
\* Worker threads of the TLS back-end (num_threads()).
NumWorkers == 2
\* Total number of tasks enqueued in one run of the TLS back-end.
MaxTlsTasks == 4
\* Number of enqueues one task of the TLS back-end makes at most.
MaxChildren == 2
\* Number of untied tasks enqueued to the tile a spiller works on.
MaxHwTasks == 3
\* Largest n a spiller is run with.
MaxSpillN == 3
\* Number of spiller runs.
MaxSpills == 1
\* Largest timestamp, short of UINT64_MAX, a hardware task is enqueued with.
MaxSpillTs == 1
\* Number of times one requeuer yields on a full queue.
MaxYields == 2
\* Longest range the tree variants of enqueue_all are called with.
MaxEaRange == 34
\* Longest range the strand and progressive variants are called with.
MaxStrandRange == 12
\* Largest MaxBaseEnqs enqueue_all is instantiated with.
MaxBaseEnqsBound == 2
\* Largest EnqueuesPerTask enqueue_all is instantiated with.
MaxEnqueuesPerTask == 2
\* Largest MaxStrands enqueue_all is instantiated with.
MaxStrandsBound == 3
\* Longest range reduce is called with under addition.
MaxRedRange == 13
\* Longest range reduce is called with under concatenation.
MaxRedRangeConcat == 6
\* Largest number of elements of the reduced range in a cache line.
MaxElementsPerLine == 2
\* Longest range fill is called on, in elements.
MaxFillLen == 34
\* Largest distance of the first element filled from the array's cache-line
\* aligned base, in elements.
MaxFillOffset == 3
\* Largest number of bytes of a copy.
MaxCopyBytes == 130
\* Largest distance of a copy's destination from the start, and from the last
\* byte, of a cache line.
MaxCopyOffset == 1
\* Largest length of the range of a forall.
MaxForallLen == 9
\* Number of calls of a forall's body recorded beyond one per index.
MaxForallCalls == 2
\* Longest range forall_ts is called with.
MaxForallTsLen == 17
\* Longest range forallred is called with.
\* Length of the one long range forall_ts is called with.
ForallTsLongLen == 32
MaxForallRedLen == 9
\* Number of threads launch_threads runs the worker function on.
NumHwThreads == 3

\* -------------------------------------------------------- program constants
\* (-1ul): "no timestamp" / "not in a task"; scaled to the model's width.
UINT64_MAX == 255
MAX_TS == UINT64_MAX

\* swarm::max_children: the number of children a task may enqueue
max_children == 8

\* enqflags.h: the flags the spiller handles
NOHASH == 16
PRODUCER == 32
MAYSPEC == 64
CANTSPEC == 128
NOTIMESTAMP == 512
REQUEUER == 1024
NONSERIALHINT == 2048
NOHINT == 65536
SAMEHINT == 131072
SAMETASK == 262144
SAMETIME == 524288
YIELDIFFULL == 1048576
PARENTDOMAIN == 2097152
RUNONABORT == 16777216

\* hooks.h: the first magic op of the task-enqueue range (1u << 30)
MAGIC_OP_TASK_ENQUEUE_BEGIN == 1073741824

\* hwtasks.h: the number of argument words of a task descriptor
PLS_APP_MAX_ARGS == 5

\* __enqueueOrYield: the mask 0x0ffff of the flag bits of taskPtrAndFlags
FlagsMask == 65535

\* taskPtrAndFlags: [ 48 bits of task ptr | 16 bits of flags ]
TaskPtrShift == 65536

\* The timestamp every frame requeuer is enqueued with
FrameRequeuerTs == 42

\* types.h: #define SWARM_CACHE_LINE 64
SWARM_CACHE_LINE == 64

\* oracle_runtime.h num_threads(): UINT32_MAX / 128
OracleNumThreads == 33554431
\* The largest value of forall's IterType, for IterType = uint8_t
IterTypeMax == 255

TsValues == 0..MaxTs

\* A task record (TaskState): the heap address of the record, its timestamp
\* and, in builds with SWTASKS_USE_UID, its uid (0 when the build has none).
TaskState(ptr, uid, ts) == [ptr |-> ptr, uid |-> uid, ts |-> ts]

NoTask == [ptr |-> 0, uid |-> 0, ts |-> 0]

\* ---------------------------------------------------------- priority queue
\* A comparator with the order reversed (a max-heap on timestamps).
CompareTasks_reversed(a, b) == a.ts < b.ts

\* CompareTasks: a->ts > b->ts.  std::priority_queue keeps the comparator's
\* greatest element, i.e. the smallest timestamp, at the front.
CompareTasks(a, b) == a.ts > b.ts

GetTimestamp(a) == a.ts

\* A push_heap that leaves the new element where push_back put it.
push_heap_noSift(c, holeIndex, topIndex, value) ==
    [c EXCEPT ![holeIndex + 1] = value]

\* std::push_heap's sift-up over the vector c (0-based index i is c[i+1]):
\* move the hole up while the parent compares "less" than the value.
RECURSIVE push_heap(_, _, _, _)
push_heap(c, holeIndex, topIndex, value) ==
    LET parent == (holeIndex - 1) \div 2 IN
    IF holeIndex > topIndex /\ CompareTasks(c[parent + 1], value)
    THEN push_heap([c EXCEPT ![holeIndex + 1] = c[parent + 1]],
                   parent, topIndex, value)
    ELSE [c EXCEPT ![holeIndex + 1] = value]

\* A descent that always follows the right child, without comparing.
RECURSIVE adjust_down_rightOnly(_, _, _, _)
adjust_down_rightOnly(c, holeIndex, secondChild, len) ==
    IF secondChild < (len - 1) \div 2
    THEN LET sc == 2 * (secondChild + 1)
         IN  adjust_down_rightOnly([c EXCEPT ![holeIndex + 1] = c[sc + 1]],
                                   sc, sc, len)
    ELSE [c |-> c, holeIndex |-> holeIndex, secondChild |-> secondChild]

\* The descent of std::__adjust_heap: move the hole down to a leaf, always
\* towards the child the comparator prefers.  Returns the vector and the
\* final hole and secondChild indices.
RECURSIVE adjust_down(_, _, _, _)
adjust_down(c, holeIndex, secondChild, len) ==
    IF secondChild < (len - 1) \div 2
    THEN LET sc0 == 2 * (secondChild + 1)
             sc  == IF CompareTasks(c[sc0 + 1], c[sc0]) THEN sc0 - 1 ELSE sc0
         IN  adjust_down([c EXCEPT ![holeIndex + 1] = c[sc + 1]], sc, sc, len)
    ELSE [c |-> c, holeIndex |-> holeIndex, secondChild |-> secondChild]

\* std::__adjust_heap(first, holeIndex, len, value, comp)
adjust_heap(c, holeIndex, len, value) ==
    LET d == adjust_down(c, holeIndex, holeIndex, len)
        e == IF len % 2 = 0 /\ d.secondChild = (len - 2) \div 2
             THEN LET sc == 2 * (d.secondChild + 1)
                  IN  [c |-> [d.c EXCEPT ![d.holeIndex + 1] = d.c[sc]],
                       holeIndex |-> sc - 1]
             ELSE [c |-> d.c, holeIndex |-> d.holeIndex]
    IN  push_heap(e.c, e.holeIndex, holeIndex, value)

\* std::priority_queue::push: c.push_back(x); std::push_heap(begin, end).
push(c, x) == push_heap(Append(c, x), Len(c), 0, x)

\* std::priority_queue::pop: std::pop_heap(begin, end); c.pop_back().
\* pop_heap moves the last element aside, puts the front in its place and
\* re-inserts the saved value from the root downwards.
pop(c) ==
    IF Len(c) > 1
    THEN LET n == Len(c)
             value == c[n]
             moved == [c EXCEPT ![n] = c[1]]
         IN  SubSeq(adjust_heap(moved, 0, n - 1, value), 1, n - 1)
    ELSE <<>>

\* std::priority_queue::top
top(c) == c[1]

\* std::priority_queue::empty
empty(c) == Len(c) = 0

\* A dequeueTop that forgets PQ::pop().
dequeueTop_noPop(c) == [v |-> top(c), c |-> c]

\* dtpq::dequeueTop: T v = PQ::top(); PQ::pop(); return v;
dequeueTop(c) == [v |-> top(c), c |-> pop(c)]

\* dtpq::minTs: GetTimestamp(PQ::top())
pq_minTs(c) == GetTimestamp(top(c))

\* ------------------------------------------------------------------- state
VARIABLES
    backend,        \* the runtime the program was built with
    ndebug,         \* the program was built with NDEBUG defined, so that
                    \* assert() expands to nothing
    pc,             \* where the main thread is: "main" (before run()),
                    \* "loop" (in run(), between tasks), "task" (inside
                    \* t->call()), "done" (run() returned), "aborted"
    pq,             \* seq_tasks.h: the global PriorityQueue pq
    pqs,            \* oracle_tasks.h: std::stack<PriorityQueue*> pqs, bottom
                    \* first; each entry is the queue's address and contents
    superTsStack,   \* oracle_runtime.h: std::stack<uint64_t>, bottom first
    taskIdCounter,  \* oracle_runtime.h
    curTaskId,      \* oracle_runtime.h
    curTaskTS,      \* oracle_runtime.h
    nextPtr,        \* next address operator new hands out for a task record
    nextDom,        \* next address operator new hands out for a queue
    allocated,      \* addresses of the task records not yet deleted
    running,        \* the task record whose call() is executing
    deepens,        \* number of deepen() calls made so far
    enqueuedByMain, \* history: how many tasks main enqueued before run()
    log,            \* history: the tasks invoked so far, in order
    domHist,        \* history: per queue address, who created the domain
    monotone,       \* history: no enqueue so far had a timestamp below that
                    \* of the task last dequeued from the queue it went to
    lastOp,         \* history: the last operation applied to pq directly
    minTs,          \* tls_runtime.h: each worker's thread-local minTs
    minTsLog,       \* history: the writes made to each worker's minTs, in
                    \* order, with the statement that made them
    hwq,            \* the tlsTask each worker has pending in the hardware
                    \* task queue: its timestamp, or NoHwTask
    hwTasks,        \* the untied tasks a tile's hardware task queue holds
    hwEnqueued,     \* how many tasks were enqueued to the tile so far
    blocks,         \* the TaskDescriptors blocks allocated so far, by address
    requeuers,      \* the requeuer tasks the spillers have enqueued
    lastSpill,      \* history: what the last spiller run was handed
    hwEnqLog,       \* history: the tasks the requeuers handed to the enqueue
                    \* instruction, as the hardware decodes them, in order
    eaCfg,          \* the call of enqueue_all under way: its template and
                    \* function arguments
    eaPhase,        \* "idle", "call" (about to be called) or "run"
    eaTasks,        \* the enqueuer, strand and del tasks in the task queue
    eaCalls,        \* history: the positions the user's enqueue lambda was
                    \* called with, as a bag
    eaDesc,         \* the heap descriptor shared by the strand tasks
    redCfg,         \* the call of reduce under way: its arguments
    redPhase,       \* "idle", "call" (about to be called) or "run"
    redTasks,       \* the tasks of the reduction in the task queue
    redInter,       \* Reducer::intermediates, one per worker thread
    redCb,          \* history: the enqueues of the callback, in order
    redStat,        \* history: how many accumulate and updateIntermediate
                    \* tasks have run, the calls of deepen and of free
    memCfg,         \* the call of fill or copy under way: its arguments
    memPhase,       \* "idle", "call" (about to be called), "run", "aborted"
                    \* or "crashed"
    memTasks,       \* the tasks of the fill or copy in the task queue
    memWritten,     \* history: the element addresses written so far, each
                    \* with the value stored
    memLast,        \* history: the task of the fill or copy that ran last
    faCfg,          \* the call of forall under way: first, the length n of
                    \* the range, the number of threads
    faPhase,        \* "idle", "call" (forall about to be called), "run",
                    \* "done" (forall returned with nothing enqueued)
    faTasks,        \* the bag of tasks of the forall in the task queue
    faData,         \* the __ForallLoopData object: sup, stride and
                    \* strandsFinished, and whether it is allocated
    faBody,         \* history: the bag of indices bl was called with
    faTerm,         \* history: the number of calls of tl
    faTermLog       \* history: the calls of tl, in order: whether made in
                    \* place by the caller, the timestamp of the task that
                    \* made it otherwise, and the arguments
VARIABLES
    thrPc,          \* per thread of launch_threads (thread 0 runs on the
                    \* main thread's worker context): 0 before the thread
                    \* exists, else the statement of its worker function
                    \* it executes next
    thrAtBarrier,   \* the threads blocked in sim_barrier
    thrInLoop,      \* the threads inside sim_task_dequeue_runloop
    launch,         \* the main thread in launch_threads: where it is and
                    \* the thread it creates or joins next
    roi             \* whether zsim_roi_begin and zsim_roi_end were executed

schedVars == <<backend, ndebug, pc, pq, pqs, superTsStack, taskIdCounter, curTaskId,
               curTaskTS, nextPtr, nextDom, allocated, running, deepens,
               enqueuedByMain, log, domHist, monotone>>

oracleVars == <<pqs, superTsStack, taskIdCounter, curTaskId, curTaskTS,
                nextDom, deepens, domHist>>

pqOpVars == <<lastOp>>

tlsVars == <<minTs, minTsLog, hwq>>

spillVars == <<hwTasks, hwEnqueued, blocks, requeuers, lastSpill, hwEnqLog>>

eaVars == <<eaCfg, eaPhase, eaTasks, eaCalls, eaDesc>>

redVars == <<redCfg, redPhase, redTasks, redInter, redCb, redStat>>

memVars == <<memCfg, memPhase, memTasks, memWritten, memLast>>

faVars == <<faCfg, faPhase, faTasks, faData, faBody, faTerm, faTermLog>>

thrVars == <<thrPc, thrAtBarrier, thrInLoop, launch, roi>>

algVars == <<eaVars, redVars, memVars, faVars, thrVars>>

vars == <<schedVars, pqOpVars, tlsVars, spillVars, algVars>>

\* What the sequential and oracle back-ends do not touch
notSched == <<pqOpVars, tlsVars, spillVars, algVars>>

\* What the priority queue exercised on its own does not touch
notPQ == <<oracleVars, tlsVars, spillVars, algVars>>

\* What the TLS back-end does not touch
notTLS == <<oracleVars, pqOpVars, spillVars, algVars>>

\* What the spiller does not touch
notSpill == <<schedVars, pqOpVars, tlsVars, algVars>>

\* What enqueue_all does not touch
notAlg ==
    <<schedVars, pqOpVars, tlsVars, spillVars, redVars, memVars, faVars,
      thrVars>>

\* What reduce does not touch
notRed ==
    <<schedVars, pqOpVars, tlsVars, spillVars, eaVars, memVars, faVars,
      thrVars>>

\* What fill and copy do not touch
notMem ==
    <<schedVars, pqOpVars, tlsVars, spillVars, eaVars, redVars, faVars,
      thrVars>>

\* What forall does not touch
notFa ==
    <<schedVars, pqOpVars, tlsVars, spillVars, eaVars, redVars, memVars,
      thrVars>>

\* What the worker threads do not touch
notThr ==
    <<schedVars, pqOpVars, tlsVars, spillVars, eaVars, redVars, memVars,
      faVars>>

\* std::stack::top of a stack kept bottom first
StackTop(s) == s[Len(s)]

\* std::stack::pop
StackPop(s) == SubSeq(s, 1, Len(s) - 1)

\* The timestamps of the tasks in a vector
TsOf(c) == {c[i].ts : i \in 1..Len(c)}

\* The addresses of the task records in a vector
PtrsOf(c) == {c[i].ptr : i \in 1..Len(c)}

\* The timestamp of the task most recently dequeued from the queue at
\* address dom, 0 if none was.
RECURSIVE LastDeqTs(_, _)
LastDeqTs(l, dom) ==
    IF l = <<>> THEN 0
    ELSE IF l[Len(l)].dom = dom THEN l[Len(l)].ts
    ELSE LastDeqTs(SubSeq(l, 1, Len(l) - 1), dom)

\* ------------------------------------------------- sequential back-end
\* seq_tasks.h __enqueueSwTask: pq.push(new Task<F, f, Args...>(ts, args...))
seq_enqueueSwTask(c, ptr, ts) == push(c, TaskState(ptr, 0, ts))

\* seq_runtime.h timestamp(): return 0 (FIXME in the source)
seq_timestamp == 0

\* seq_runtime.h superTimestamp(): return 0 (FIXME in the source)
seq_superTimestamp == 0

\* --------------------------------------------------- oracle back-end
\* The initial values of the oracle's globals (defined in the runtime
\* library, whose source file is not part of the headers).
InitCurTaskId == MAX_TS
InitTaskIdCounter == 0
InitCurTaskTS == MAX_TS

\* A freshly allocated, empty PriorityQueue at address ptr
NewPQ(ptr) == [ptr |-> ptr, heap |-> <<>>]

\* An __enqueueSwTask that sends every task without PARENTDOMAIN to the
\* root queue instead of the top one.
oracle_enqueueSwTask_toRoot(stack, task, useParentDomain) ==
    IF useParentDomain
    THEN LET childPq == StackTop(stack)
             rest    == StackPop(stack)
         IN  Append([rest EXCEPT ![Len(rest)].heap = push(@, task)], childPq)
    ELSE [stack EXCEPT ![1].heap = push(@, task)]

\* An __enqueueSwTask that does not push the child queue back.
oracle_enqueueSwTask_noRestore(stack, task, useParentDomain) ==
    IF useParentDomain
    THEN LET rest == StackPop(stack)
         IN  [rest EXCEPT ![Len(rest)].heap = push(@, task)]
    ELSE [stack EXCEPT ![Len(stack)].heap = push(@, task)]

\* oracle_tasks.h __enqueueSwTask, for a call that passes its assertion:
\* with PARENTDOMAIN the top queue is popped, the task pushed into the new
\* top, and the child queue pushed back; otherwise the task goes to the top.
oracle_enqueueSwTask(stack, task, useParentDomain) ==
    IF useParentDomain
    THEN LET childPq == StackTop(stack)
             rest    == StackPop(stack)
         IN  Append([rest EXCEPT ![Len(rest)].heap = push(@, task)], childPq)
    ELSE [stack EXCEPT ![Len(stack)].heap = push(@, task)]

\* The address of the queue an oracle enqueue goes to
TargetDom(stack, useParentDomain) ==
    IF useParentDomain THEN stack[Len(stack) - 1].ptr ELSE StackTop(stack).ptr

\* oracle_runtime.h timestamp(): return curTaskTS
oracle_timestamp(cts) == cts

\* oracle_runtime.h superTimestamp(): return superTsStack.top()
oracle_superTimestamp(sts) == StackTop(sts)

\* A deepen() that pushes the current task's id instead of its timestamp.
deepen_superTs_taskId(cts, cid) == cid

\* The value deepen() pushes on superTsStack: curTaskTS
deepen_superTs(cts, cid) == cts

\* timestamp() as the running task sees it
timestamp == IF backend = "seq" THEN seq_timestamp
             ELSE oracle_timestamp(curTaskTS)

\* superTimestamp() as the running task sees it
superTimestamp == IF backend = "seq" THEN seq_superTimestamp
                  ELSE oracle_superTimestamp(superTsStack)

\* The task addresses queued anywhere in the domain stack
QueuedPtrs(stack) == UNION {PtrsOf(stack[i].heap) : i \in 1..Len(stack)}

\* The queues, globals and histories of the schedulers before main runs
SchedStateInit ==
    /\ pq = <<>>
    /\ pqs = <<>>
    /\ superTsStack = <<>>
    /\ taskIdCounter = InitTaskIdCounter
    /\ curTaskId = InitCurTaskId
    /\ curTaskTS = InitCurTaskTS
    /\ nextPtr = 1
    /\ nextDom = 1
    /\ allocated = {}
    /\ running = NoTask
    /\ deepens = 0
    /\ enqueuedByMain = 0
    /\ log = <<>>
    /\ domHist = <<>>
    /\ monotone = TRUE

\* The schedulers before main runs, in a build whose assertions are active
SchedVarsInit ==
    /\ ndebug = FALSE
    /\ SchedStateInit

\* The variables of the parts of the runtime a specification does not use
PQOpIdle == lastOp = [op |-> "none"]

TlsIdle == minTs = <<>> /\ minTsLog = <<>> /\ hwq = <<>>

\* The history entry before any spiller has run
NoSpill == [n |-> 0, isFrame |-> FALSE, removed |-> <<>>, bounds |-> <<>>,
            size |-> 0, enqueued |-> FALSE, block |-> 0]

\* No descriptor allocated
NoDesc == [allocated |-> FALSE, deletes |-> 0, readAfterDelete |-> FALSE,
           inOrder |-> TRUE]

\* No call of enqueue_all under way
NoEa == [variant |-> "none", tsl |-> "index"]

EaIdle ==
    /\ eaCfg = NoEa
    /\ eaPhase = "idle"
    /\ eaTasks = <<>>
    /\ eaCalls = <<>>
    /\ eaDesc = NoDesc

\* The history counters before any task of a reduction has run
NoRedStat == [accumulated |-> 0, updated |-> 0, frees |-> 0, deepens |-> 0]

\* No call of reduce under way
RedIdle ==
    /\ redCfg = [op |-> "none"]
    /\ redPhase = "idle"
    /\ redTasks = <<>>
    /\ redInter = <<>>
    /\ redCb = <<>>
    /\ redStat = NoRedStat

\* No task of a fill or copy has run
NoMemTask == [fn |-> "none", first |-> 0, last |-> 0, midpoint |-> 0,
              split |-> FALSE, rewrote |-> FALSE]

\* No call of fill or copy under way
MemIdle ==
    /\ memCfg = [alg |-> "none"]
    /\ memPhase = "idle"
    /\ memTasks = <<>>
    /\ memWritten = {}
    /\ memLast = NoMemTask

\* No __ForallLoopData object
NoLoopData == [live |-> "none", sup |-> 0, stride |-> 0, strandsFinished |-> 0]

\* No call of forall under way
FaIdle ==
    /\ faCfg = [n |-> 0]
    /\ faPhase = "idle"
    /\ faTasks = <<>>
    /\ faData = NoLoopData
    /\ faBody = <<>>
    /\ faTerm = 0
    /\ faTermLog = <<>>

\* launch_threads has not been called
ThrIdle ==
    /\ thrPc = <<>>
    /\ thrAtBarrier = {}
    /\ thrInLoop = {}
    /\ launch = [pc |-> "idle", t |-> 0]
    /\ roi = [begun |-> FALSE, ended |-> FALSE]

AlgIdle == EaIdle /\ RedIdle /\ MemIdle /\ FaIdle /\ ThrIdle

SpillIdle ==
    /\ hwTasks = <<>>
    /\ hwEnqueued = 0
    /\ blocks = <<>>
    /\ requeuers = <<>>
    /\ lastSpill = NoSpill
    /\ hwEnqLog = <<>>

Init ==
    /\ backend \in {"seq", "oracle"}
    /\ pc = "main"
    /\ SchedVarsInit
    /\ AlgIdle
    /\ PQOpIdle
    /\ TlsIdle
    /\ SpillIdle

\* enqueueTask of the sequential back-end (seq_runtime.h)
SeqEnqueueTask(ts) ==
    /\ UNCHANGED notSched
    /\ pq' = seq_enqueueSwTask(pq, nextPtr, ts)
    /\ nextPtr' = nextPtr + 1
    /\ allocated' = allocated \cup {nextPtr}
    /\ monotone' = (monotone /\ ts >= LastDeqTs(log, 0))
    /\ UNCHANGED <<backend, ndebug, pc, running, enqueuedByMain, log>>
    /\ UNCHANGED oracleVars

\* An __enqueueSwTask that has no assertion in any build.
ParentDomainAtRoot_stray(nd) == {"stray"}

\* oracle_tasks.h __enqueueSwTask with PARENTDOMAIN while pqs holds only the
\* root queue, in a build with NDEBUG (nd) or without.  With assertions
\* active assert(pqs.size() > 1) aborts.  With NDEBUG the root is popped and
\* pqs.top() is called on the empty stack, which is undefined: the pointer
\* read is whatever lies before the deque's storage, and the push through it
\* either faults ("crashed") or lands in memory that is no queue of the
\* stack ("stray"); in the latter case the root is pushed back and the
\* program goes on.
ParentDomainAtRoot(nd) == IF nd THEN {"crashed", "stray"} ELSE {"aborted"}

\* enqueueTask of the oracle back-end (oracle_runtime.h): the first call
\* creates the root domain; every call draws a uid and hands the task to
\* __enqueueSwTask.
OracleEnqueueTask(ts, useParentDomain) ==
    LET first  == curTaskId = MAX_TS
        stack0 == IF first THEN Append(pqs, NewPQ(nextDom)) ELSE pqs
        sts0   == IF first THEN Append(superTsStack, UINT64_MAX)
                  ELSE superTsStack
        newTaskId == taskIdCounter + 1
        task   == TaskState(nextPtr, newTaskId, ts)
        dh0    == IF first
                  THEN Append(domHist, [creatorTs |-> UINT64_MAX,
                                        parentQueued |-> {}, members |-> {}])
                  ELSE domHist
    IN  /\ UNCHANGED notSched
        /\ curTaskId' = IF first THEN 0 ELSE curTaskId
        /\ nextDom' = IF first THEN nextDom + 1 ELSE nextDom
        /\ superTsStack' = sts0
        /\ taskIdCounter' = newTaskId
        /\ IF useParentDomain /\ ~(Len(stack0) > 1)
           THEN /\ pqs' = stack0
                /\ domHist' = dh0
                /\ UNCHANGED monotone
                /\ \E o \in ParentDomainAtRoot(ndebug) :
                      /\ pc' = IF o = "stray" THEN pc ELSE o
                      /\ nextPtr' = IF o = "stray" THEN nextPtr + 1
                                    ELSE nextPtr
                      /\ allocated' = IF o = "stray"
                                      THEN allocated \cup {nextPtr}
                                      ELSE allocated
           ELSE /\ pqs' = oracle_enqueueSwTask(stack0, task, useParentDomain)
                /\ nextPtr' = nextPtr + 1
                /\ allocated' = allocated \cup {nextPtr}
                /\ domHist' = [dh0 EXCEPT
                      ![TargetDom(stack0, useParentDomain)].members =
                          @ \cup {nextPtr}]
                /\ monotone' = (monotone /\
                      ts >= LastDeqTs(log, TargetDom(stack0, useParentDomain)))
                /\ pc' = pc
        /\ UNCHANGED <<backend, ndebug, pq, curTaskTS, running, deepens,
                       enqueuedByMain, log>>

\* swarm::enqueue as the build's runtime implements it
EnqueueTask(ts, useParentDomain) ==
    IF backend = "seq" THEN SeqEnqueueTask(ts)
    ELSE OracleEnqueueTask(ts, useParentDomain)

\* The number of tasks one run may enqueue in all
TaskBound == IF backend = "seq" THEN MaxTasks ELSE MaxOracleTasks

\* The main thread enqueues a task before it calls run().
MainEnqueue ==
    /\ pc = "main"
    /\ nextPtr <= TaskBound
    /\ \E ts \in TsValues, pd \in BOOLEAN : EnqueueTask(ts, pd)

\* The main thread calls run().
Run ==
    /\ UNCHANGED notSched
    /\ pc = "main"
    /\ pc' = "loop"
    /\ enqueuedByMain' = nextPtr - 1
    /\ UNCHANGED <<backend, ndebug, pq, nextPtr, allocated, running, log, monotone>>
    /\ UNCHANGED oracleVars

\* seq_runtime.h run(): one iteration of while (!pq.empty()) up to the call
\* of the task: t = pq.dequeueTop(); t->call()
SeqDequeue ==
    /\ UNCHANGED notSched
    /\ backend = "seq"
    /\ pc = "loop"
    /\ ~empty(pq)
    /\ LET d == dequeueTop(pq)
       IN  /\ pq' = d.c
           /\ running' = d.v
           /\ log' = Append(log, [ptr |-> d.v.ptr, ts |-> d.v.ts, dom |-> 0])
    /\ pc' = "task"
    /\ UNCHANGED <<backend, ndebug, nextPtr, allocated, enqueuedByMain, monotone>>
    /\ UNCHANGED oracleVars

\* oracle_runtime.h runloop(): one iteration of the inner loop up to the
\* call of the task: t = pqs.top()->dequeueTop(); curTaskId = t->uid;
\* curTaskTS = t->ts; t->call()
OracleDequeue ==
    /\ UNCHANGED notSched
    /\ backend = "oracle"
    /\ pc = "loop"
    /\ pqs # <<>>
    /\ ~empty(StackTop(pqs).heap)
    /\ LET d == dequeueTop(StackTop(pqs).heap)
       IN  /\ pqs' = [pqs EXCEPT ![Len(pqs)].heap = d.c]
           /\ curTaskId' = d.v.uid
           /\ curTaskTS' = d.v.ts
           /\ running' = d.v
           /\ log' = Append(log, [ptr |-> d.v.ptr, ts |-> d.v.ts,
                                  dom |-> StackTop(pqs).ptr])
    /\ pc' = "task"
    /\ UNCHANGED <<backend, ndebug, pq, superTsStack, taskIdCounter, nextPtr,
                   nextDom, allocated, deepens, enqueuedByMain, domHist,
                   monotone>>

\* The running task calls swarm::enqueue.
TaskEnqueue ==
    /\ pc = "task"
    /\ nextPtr <= TaskBound
    /\ \E ts \in TsValues, pd \in BOOLEAN : EnqueueTask(ts, pd)

\* oracle_runtime.h deepen(): pqs.push(new PriorityQueue());
\* superTsStack.push(curTaskTS)
OracleDeepen ==
    /\ UNCHANGED notSched
    /\ pqs' = Append(pqs, NewPQ(nextDom))
    /\ superTsStack' = Append(superTsStack, deepen_superTs(curTaskTS, curTaskId))
    /\ nextDom' = nextDom + 1
    /\ deepens' = deepens + 1
    /\ domHist' = Append(domHist, [creatorTs |-> running.ts,
                                   parentQueued |-> QueuedPtrs(pqs),
                                   members |-> {}])
    /\ UNCHANGED <<backend, ndebug, pc, pq, taskIdCounter, curTaskId, curTaskTS,
                   nextPtr, allocated, running, enqueuedByMain, log,
                   monotone>>

\* seq_runtime.h deepen(): "unimplemented", std::abort()
SeqDeepen ==
    /\ UNCHANGED notSched
    /\ pc' = "aborted"
    /\ UNCHANGED <<backend, ndebug, pq, nextPtr, allocated, running, enqueuedByMain,
                   log, monotone>>
    /\ UNCHANGED oracleVars

\* The running task calls swarm::deepen.
TaskDeepen ==
    /\ pc = "task"
    /\ deepens < MaxDeepen
    /\ IF backend = "seq" THEN SeqDeepen ELSE OracleDeepen

\* The running task calls swarm::undeepen: "unimplemented", std::abort()
\* in both back-ends.
TaskUndeepen ==
    /\ UNCHANGED notSched
    /\ pc = "task"
    /\ pc' = "aborted"
    /\ UNCHANGED <<backend, ndebug, pq, nextPtr, allocated, running, enqueuedByMain,
                   log, monotone>>
    /\ UNCHANGED oracleVars

\* The task's call() returns.  The oracle's loop then deletes the record;
\* the sequential loop does not.
TaskReturn ==
    /\ UNCHANGED notSched
    /\ pc = "task"
    /\ pc' = "loop"
    /\ running' = NoTask
    /\ allocated' = IF backend = "oracle" THEN allocated \ {running.ptr}
                    ELSE allocated
    /\ UNCHANGED <<backend, ndebug, pq, nextPtr, enqueuedByMain, log, monotone>>
    /\ UNCHANGED oracleVars

\* A runloop() that pops the super-timestamp but leaves the drained queue on
\* the domain stack.
OraclePopDomain_keepQueue ==
    /\ UNCHANGED notSched
    /\ backend = "oracle"
    /\ pc = "loop"
    /\ pqs # <<>>
    /\ empty(StackTop(pqs).heap)
    /\ superTsStack # <<>>
    /\ superTsStack' = StackPop(superTsStack)
    /\ UNCHANGED <<backend, ndebug, pc, pq, pqs, taskIdCounter, curTaskId, curTaskTS,
                   nextPtr, nextDom, allocated, running, deepens,
                   enqueuedByMain, log, domHist, monotone>>

\* oracle_runtime.h runloop(): the top queue is empty, so it is popped and
\* deleted together with its super-timestamp.
OraclePopDomain ==
    /\ UNCHANGED notSched
    /\ backend = "oracle"
    /\ pc = "loop"
    /\ pqs # <<>>
    /\ empty(StackTop(pqs).heap)
    /\ pqs' = StackPop(pqs)
    /\ superTsStack' = StackPop(superTsStack)
    /\ UNCHANGED <<backend, ndebug, pc, pq, taskIdCounter, curTaskId, curTaskTS,
                   nextPtr, nextDom, allocated, running, deepens,
                   enqueuedByMain, log, domHist, monotone>>

\* The loop condition of run() / runloop() fails and run() returns.
RunReturn ==
    /\ UNCHANGED notSched
    /\ pc = "loop"
    /\ IF backend = "seq" THEN empty(pq) ELSE pqs = <<>>
    /\ pc' = "done"
    /\ UNCHANGED <<backend, ndebug, pq, nextPtr, allocated, running, enqueuedByMain,
                   log, monotone>>
    /\ UNCHANGED oracleVars

Next ==
    \/ MainEnqueue
    \/ Run
    \/ SeqDequeue
    \/ OracleDequeue
    \/ TaskEnqueue
    \/ TaskDeepen
    \/ TaskUndeepen
    \/ TaskReturn
    \/ OraclePopDomain
    \/ RunReturn

Spec == Init /\ [][Next]_vars

\* The oracle back-end alone, in a build with assertions active or with
\* NDEBUG defined
InitOracle ==
    /\ backend = "oracle"
    /\ ndebug \in BOOLEAN
    /\ pc = "main"
    /\ SchedStateInit
    /\ AlgIdle
    /\ PQOpIdle
    /\ TlsIdle
    /\ SpillIdle

NextOracle ==
    \/ MainEnqueue
    \/ Run
    \/ OracleDequeue
    \/ TaskEnqueue
    \/ TaskDeepen
    \/ TaskUndeepen
    \/ TaskReturn
    \/ OraclePopDomain
    \/ RunReturn

SpecOracle == InitOracle /\ [][NextOracle]_vars

\* ------------------------------------------ the priority queue on its own
\* The queue is driven directly by an arbitrary sequence of push and
\* dequeueTop calls.
InitPQ ==
    /\ backend = "seq"
    /\ pc = "pq"
    /\ SchedVarsInit
    /\ AlgIdle
    /\ PQOpIdle
    /\ TlsIdle
    /\ SpillIdle

\* pq.push(new Task(ts, ...))
PQPush ==
    /\ pc = "pq"
    /\ nextPtr <= MaxPushes
    /\ \E ts \in TsValues :
          /\ pq' = push(pq, TaskState(nextPtr, 0, ts))
          /\ lastOp' = [op |-> "push", before |-> pq,
                        v |-> TaskState(nextPtr, 0, ts)]
    /\ nextPtr' = nextPtr + 1
    /\ allocated' = allocated \cup {nextPtr}
    /\ UNCHANGED <<backend, ndebug, pc, running, enqueuedByMain, log, monotone>>
    /\ UNCHANGED notPQ

\* pq.dequeueTop() on a non-empty queue
PQDequeueTop ==
    /\ pc = "pq"
    /\ ~empty(pq)
    /\ LET d == dequeueTop(pq)
       IN  /\ pq' = d.c
           /\ lastOp' = [op |-> "dequeueTop", before |-> pq, v |-> d.v]
    /\ UNCHANGED <<backend, ndebug, pc, nextPtr, allocated, running, enqueuedByMain,
                   log, monotone>>
    /\ UNCHANGED notPQ

NextPQ ==
    \/ PQPush
    \/ PQDequeueTop

SpecPQ == InitPQ /\ [][NextPQ]_vars

\* ------------------------------------------------------- TLS back-end
\* The tlsTask of every worker is a hardware task.  The machine runs hardware
\* tasks so that they appear atomic and in timestamp order (equal timestamps
\* in any order), which is what the model's dispatch does: it picks a
\* pending tlsTask of least timestamp and runs it to completion.
Workers == 1..NumWorkers

NoHwTask == UINT64_MAX + 1

\* The value of a worker's minTs before tls_worker resets it (the variable
\* is defined in the runtime library).
InitMinTs == 0

\* A tls enqueueTask that never lowers minTs.
tls_lowerMinTs_never(m, ts) == m

\* A tls enqueueTask with the comparison reversed.
tls_lowerMinTs_reversed(m, ts) == IF ts > m THEN ts ELSE m

\* tls_runtime.h enqueueTask: if (ts < minTs) minTs = ts
tls_lowerMinTs(m, ts) == IF ts < m THEN ts ELSE m

\* A write to minTs: the statement that made it (the assignment of
\* tls_worker, of tlsTask after its dequeue, or of enqueueTask), the value
\* written, and for tlsTask the timestamp of the task dequeued
MinTsWrite(kind, v, ts) == [kind |-> kind, v |-> v, ts |-> ts]

\* A tlsTask that does not enqueue its successor.
tlsTask_successor_none(m) == NoHwTask

\* tls_runtime.h tlsTask: __enqueueHwTask<tlsTask>(minTs, SAMEHINT |
\* SAMETASK), the timestamp of the worker's next tlsTask
tlsTask_successor(m) == m

\* A tlsTask that does not test the queue.
tlsTask_returnsEarly_never(c) == FALSE

\* tls_runtime.h tlsTask: if (pq.empty()) return;
tlsTask_returnsEarly(c) == empty(c)

\* tls_runtime.h tlsTask: minTs = pq.empty() ? GetTimestamp(t) : pq.minTs(),
\* evaluated after the dequeue of t has left the queue c
tls_minTsAfterDequeue(t, c) ==
    IF empty(c) THEN GetTimestamp(t) ELSE pq_minTs(c)

\* hwmisc.h timestamp(): sim_get_timestamp(), the timestamp of the hardware
\* task that is running, here the tlsTask
tls_timestamp(hwTs) == hwTs

\* t->call() of a task that enqueues tasks with the timestamps es, in order,
\* through the TLS enqueueTask: st is the queue, the worker's minTs, the
\* writes made to it and the next record address.
RECURSIVE tls_call(_, _)
tls_call(st, es) ==
    IF es = <<>> THEN st
    ELSE LET m == tls_lowerMinTs(st.m, Head(es))
         IN  tls_call([c |-> seq_enqueueSwTask(st.c, st.ptr, Head(es)),
                       m |-> m,
                       w |-> IF m = st.m THEN st.w
                             ELSE Append(st.w,
                                         MinTsWrite("enqueueTask", m, Head(es))),
                       ptr |-> st.ptr + 1],
                      Tail(es))

\* The sequences of timestamps of length at most n
RECURSIVE SeqsUpTo(_)
SeqsUpTo(n) ==
    IF n = 0 THEN {<<>>}
    ELSE LET shorter == SeqsUpTo(n - 1)
         IN  shorter \cup {Append(e, ts) : e \in shorter, ts \in TsValues}

InitTLS ==
    /\ backend = "tls"
    /\ pc = "main"
    /\ SchedVarsInit
    /\ AlgIdle
    /\ PQOpIdle
    /\ SpillIdle
    /\ minTs = [w \in Workers |-> InitMinTs]
    /\ minTsLog = [w \in Workers |-> <<>>]
    /\ hwq = [w \in Workers |-> NoHwTask]

\* The main thread (worker 1's thread) enqueues a task before run().
TlsMainEnqueue ==
    /\ pc = "main"
    /\ nextPtr <= MaxTlsTasks
    /\ \E ts \in TsValues :
          LET st == tls_call([c |-> pq, m |-> minTs[1], w |-> minTsLog[1],
                              ptr |-> nextPtr],
                             <<ts>>)
          IN  /\ pq' = st.c
              /\ minTs' = [minTs EXCEPT ![1] = st.m]
              /\ minTsLog' = [minTsLog EXCEPT ![1] = st.w]
              /\ nextPtr' = st.ptr
    /\ allocated' = allocated \cup {nextPtr}
    /\ UNCHANGED <<backend, ndebug, pc, running, enqueuedByMain, log, monotone, hwq>>
    /\ UNCHANGED notTLS

\* tls_runtime.h run(): one tlsTask with timestamp 0 is enqueued per thread,
\* then launch_threads starts tls_worker on every thread, which sets minTs
\* to 0 and enters the hardware's dequeue loop.
TlsRun ==
    /\ pc = "main"
    /\ pc' = "loop"
    /\ enqueuedByMain' = nextPtr - 1
    /\ hwq' = [w \in Workers |-> 0]
    /\ minTs' = [w \in Workers |-> 0]
    /\ minTsLog' = [w \in Workers |->
                       Append(minTsLog[w], MinTsWrite("tls_worker", 0, 0))]
    /\ UNCHANGED <<backend, ndebug, pq, nextPtr, allocated, running, log,
                   monotone>>
    /\ UNCHANGED notTLS

\* The pending tlsTask of worker w is one the hardware may run next.
Dispatchable(w) ==
    /\ hwq[w] # NoHwTask
    /\ \A o \in Workers : hwq[o] # NoHwTask => hwq[w] <= hwq[o]

\* tls_runtime.h tlsTask on worker w finds the queue empty and returns
\* without enqueuing a successor.
TlsTaskEmpty(w) ==
    /\ pc = "loop"
    /\ Dispatchable(w)
    /\ tlsTask_returnsEarly(pq)
    /\ hwq' = [hwq EXCEPT ![w] = NoHwTask]
    /\ UNCHANGED <<backend, ndebug, pc, pq, nextPtr, allocated, running,
                   enqueuedByMain, log, monotone, minTs, minTsLog>>
    /\ UNCHANGED notTLS

\* tls_runtime.h tlsTask on worker w goes past the test of the queue:
\* dequeue the top task, set minTs, call the task (which enqueues the tasks
\* es), and enqueue the next tlsTask with timestamp minTs.  dequeueTop on an
\* empty queue reads the top of an empty std::priority_queue and calls
\* through what it read: the program faults.
TlsTask(w) ==
    /\ pc = "loop"
    /\ Dispatchable(w)
    /\ ~tlsTask_returnsEarly(pq)
    /\ IF empty(pq)
       THEN /\ pc' = "crashed"
            /\ UNCHANGED <<pq, nextPtr, allocated, log, tlsVars>>
       ELSE /\ \E es \in SeqsUpTo(MaxChildren) :
                /\ nextPtr + Len(es) - 1 <= MaxTlsTasks
                /\ LET d  == dequeueTop(pq)
                       m0 == tls_minTsAfterDequeue(d.v, d.c)
                       st == tls_call(
                                [c |-> d.c, m |-> m0,
                                 w |-> Append(minTsLog[w],
                                          MinTsWrite("tlsTask", m0, d.v.ts)),
                                 ptr |-> nextPtr], es)
                   IN  /\ pq' = st.c
                       /\ nextPtr' = st.ptr
                       /\ allocated' = allocated \cup (nextPtr..(st.ptr - 1))
                       /\ minTs' = [minTs EXCEPT ![w] = st.m]
                       /\ minTsLog' = [minTsLog EXCEPT ![w] = st.w]
                       /\ hwq' = [hwq EXCEPT
                                  ![w] = tlsTask_successor(st.m)]
                       /\ log' = Append(log,
                                    [ptr |-> d.v.ptr, ts |-> d.v.ts,
                                     dom |-> 0, worker |-> w,
                                     minTs |-> minTs[w],
                                     timestamp |-> tls_timestamp(hwq[w])])
            /\ UNCHANGED pc
    /\ UNCHANGED <<backend, ndebug, running, enqueuedByMain, monotone>>
    /\ UNCHANGED notTLS

\* No tlsTask is pending any more: every worker leaves the dequeue loop and
\* launch_threads, hence run(), returns.
TlsRunReturn ==
    /\ pc = "loop"
    /\ \A w \in Workers : hwq[w] = NoHwTask
    /\ pc' = "done"
    /\ UNCHANGED <<backend, ndebug, pq, nextPtr, allocated, running, enqueuedByMain,
                   log, monotone>>
    /\ UNCHANGED <<notTLS, tlsVars>>

NextTLS ==
    \/ TlsMainEnqueue
    \/ TlsRun
    \/ \E w \in Workers : TlsTaskEmpty(w)
    \/ \E w \in Workers : TlsTask(w)
    \/ TlsRunReturn

SpecTLS == InitTLS /\ [][NextTLS]_vars

\* The program calls run(), the hardware runs a pending tlsTask, and
\* launch_threads returns once no worker has a task left.
FairSpecTLS ==
    /\ SpecTLS
    /\ WF_vars(TlsRun)
    /\ WF_vars(\E w \in Workers : TlsTaskEmpty(w) \/ TlsTask(w))
    /\ WF_vars(TlsRunReturn)

\* ------------------------------------------------------------- spiller
\* The tile's task queue holds untied tasks; the hardware runs a spiller
\* (or a frame spiller) with some n when the queue is over-full.  A spiller
\* is a task, so the model runs it as one step.

\* The element of a set of one element
TheOnly(S) == CHOOSE x \in S : TRUE

\* The C operators & and | on unsigned integers: the operands are evaluated
\* once, as x and y, and combined bit by bit from the lowest bit up.
RECURSIVE BitAnd(_, _)
BitAnd(a, b) ==
    TheOnly({IF x = 0 \/ y = 0 THEN 0
             ELSE (x % 2) * (y % 2) + 2 * BitAnd(x \div 2, y \div 2)
             : x \in {a}, y \in {b}})

RECURSIVE BitOr(_, _)
BitOr(a, b) ==
    TheOnly({IF x = 0 THEN y
             ELSE IF y = 0 THEN x
             ELSE (IF x % 2 = 1 \/ y % 2 = 1 THEN 1 ELSE 0)
                  + 2 * BitOr(x \div 2, y \div 2)
             : x \in {a}, y \in {b}})

\* taskPtrAndFlags & f is not zero, for a flag f of a single bit
HasFlag(taskPtrAndFlags, f) == (taskPtrAndFlags \div f) % 2 = 1

\* The timestamps hardware tasks are enqueued with
SpillTsValues == (0..MaxSpillTs) \cup {UINT64_MAX}

\* The persistent flags hardware tasks are enqueued with
HwFlagChoices == {0, CANTSPEC, NOTIMESTAMP, BitOr(NOTIMESTAMP, CANTSPEC),
                  BitOr(PRODUCER, MAYSPEC)}

\* What the remove instruction hands back for a queued task: TaskDescriptor.
\* The i-th task enqueued has task pointer i, hint 10 + i and argument words
\* 20 + i, 30 + i, ..., so that descriptors and their fields can be told
\* apart.
TaskDescriptor(ptr, ts, flags) ==
    [ts |-> ts, taskPtrAndFlags |-> ptr * TaskPtrShift + flags,
     hint |-> 10 + ptr,
     args |-> [k \in 1..PLS_APP_MAX_ARGS |-> 10 * (k + 1) + ptr]]

\* A descriptor slot of a freshly allocated block, not written yet
Unwritten == [ts |-> 0, taskPtrAndFlags |-> 0, hint |-> 0,
              args |-> [k \in 1..PLS_APP_MAX_ARGS |-> 0]]

\* The sequence q without its i-th element
RemoveAt(q, i) == SubSeq(q, 1, i - 1) \o SubSeq(q, i + 1, Len(q))

\* The answers the remove instruction can give when passed the bound minTs:
\* 0 for "no task" (taskPtrAndFlags == 0), or the position of a queued task
\* whose timestamp does not exceed the bound; a task without a timestamp is
\* not held back by the bound, and a frame spiller is never given one.
RemoveResponses(q, bound, isFrame) ==
    {0} \cup {i \in DOMAIN q :
                 IF HasFlag(q[i].taskPtrAndFlags, NOTIMESTAMP)
                 THEN ~isFrame
                 ELSE q[i].ts <= bound}

\* A __removeOne that keeps only the flags of the task just removed.
requeuerFlags_and_lastOnly(requeuerFlags, taskPtrAndFlags) ==
    BitAnd(BitOr(NOTIMESTAMP, CANTSPEC), taskPtrAndFlags)

\* __removeOne: *requeuerFlags &= taskPtrAndFlags
requeuerFlags_and(requeuerFlags, taskPtrAndFlags) ==
    BitAnd(requeuerFlags, taskPtrAndFlags)

\* __removeOne, given the instruction's answer i.  st holds the spiller's
\* locals: the queue q, the cursor task (as an index from begin), minTs,
\* requeuerFlags, nonTimestamped, the block's descriptors tds, and newMin,
\* the value returned; removed and bounds are history.
removeOne(st, bound, i) ==
    IF i = 0
    THEN [st EXCEPT !.newMin = UINT64_MAX,
                    !.bounds = Append(@, bound)]
    ELSE LET t == st.q[i]
         IN  [st EXCEPT
                !.requeuerFlags = requeuerFlags_and(@, t.taskPtrAndFlags),
                !.nonTimestamped = HasFlag(t.taskPtrAndFlags, NOTIMESTAMP),
                !.tds = [@ EXCEPT ![st.task + 1] = t],
                !.newMin = t.ts,
                !.q = RemoveAt(st.q, i),
                !.removed = Append(@, t),
                !.bounds = Append(@, bound)]

\* spiller_impl, first loop: for (task = begin; task < end; task++), every
\* way the hardware can answer; the loop is left without the increment when
\* a task without timestamp was removed or __removeOne returned UINT64_MAX.
RECURSIVE spiller_loop1(_, _, _)
spiller_loop1(st, n, isFrame) ==
    IF st.task < n
    THEN UNION {LET s1 == removeOne(st, st.minTs, i)
                IN  IF s1.nonTimestamped \/ s1.newMin = UINT64_MAX
                    THEN {s1}
                    ELSE spiller_loop1([s1 EXCEPT !.minTs = s1.newMin,
                                                  !.task = @ + 1],
                                       n, isFrame)
                : i \in RemoveResponses(st.q, st.minTs, isFrame)}
    ELSE {st}

\* A second loop that leaves minTs as the first loop left it.
loop2_minTs_keep(m, nonTimestamped) == m

\* spiller_impl, second loop: if (!nonTimestamped) minTs = 0ul
loop2_minTs(m, nonTimestamped) == IF ~nonTimestamped THEN 0 ELSE m

\* A second loop that goes on passing minTs to the remove instruction.
loop2_bound_minTs(m) == m

\* spiller_impl, second loop: __removeOne(task, end, magicOp, 0, ...), the
\* bound passed whatever minTs is
loop2_bound(m) == 0

\* spiller_impl, second loop, entered at task + 1: removals are bounded by
\* 0; a timestamped task found sets minTs to 0.
RECURSIVE spiller_loop2(_, _, _)
spiller_loop2(st, n, isFrame) ==
    IF st.task < n
    THEN UNION {LET s1 == removeOne(st, loop2_bound(st.minTs), i)
                IN  IF s1.newMin = UINT64_MAX
                    THEN {s1}
                    ELSE spiller_loop2(
                            [s1 EXCEPT
                                !.minTs = loop2_minTs(@, s1.nonTimestamped),
                                !.task = @ + 1],
                            n, isFrame)
                : i \in RemoveResponses(st.q, loop2_bound(st.minTs), isFrame)}
    ELSE {st}

\* spiller_impl up to tdstruct->size = std::distance(begin, task): the
\* locals at that point, for every way the hardware can answer.
spiller_loops(q, n, isFrame) ==
    LET st0 == [q |-> q, task |-> 0, minTs |-> UINT64_MAX,
                requeuerFlags |-> IF isFrame THEN 0
                                  ELSE BitOr(NOTIMESTAMP, CANTSPEC),
                nonTimestamped |-> FALSE,
                tds |-> [k \in 1..n |-> Unwritten],
                newMin |-> 0, removed |-> <<>>, bounds |-> <<>>]
    IN  UNION {IF s.nonTimestamped
               THEN spiller_loop2([s EXCEPT !.task = @ + 1], n, isFrame)
               ELSE {s}
               : s \in spiller_loop1(st0, n, isFrame)}

\* The flags every requeuer is enqueued with
RequeuerBaseFlags ==
    BitOr(SAMEHINT, BitOr(NONSERIALHINT,
          BitOr(NOHASH, BitOr(PRODUCER, REQUEUER))))

\* The requeuer task spiller_impl enqueues for the block at address block
spiller_requeuer(s, isFrame, block) ==
    IF isFrame
    THEN [fn |-> "frame_requeuer", ts |-> FrameRequeuerTs,
          flags |-> BitOr(RequeuerBaseFlags, CANTSPEC), descs |-> block,
          state |-> "queued", yields |-> 0]
    ELSE [fn |-> "requeuer", ts |-> s.minTs,
          flags |-> BitOr(RequeuerBaseFlags, s.requeuerFlags),
          descs |-> block, state |-> "queued", yields |-> 0]

\* A spiller that frees every block it fills.
spiller_block_freeAlways(s) ==
    [size |-> s.task, tds |-> s.tds, frees |-> 1,
     spilled |-> s.task, removed |-> s.removed, usedAfterFree |-> FALSE]

\* The TaskDescriptors block spiller_impl leaves behind: size and tds are the
\* block's contents, frees counts the calls of sim_zero_cycle_free on it;
\* spilled (the size the spiller stored), removed (what the remove
\* instruction returned, in order) and usedAfterFree are history.
spiller_block(s) ==
    [size |-> s.task, tds |-> s.tds,
     frees |-> IF s.task > 0 THEN 0 ELSE 1,
     spilled |-> s.task, removed |-> s.removed, usedAfterFree |-> FALSE]

InitSpill ==
    /\ backend = "hw"
    /\ pc = "hw"
    /\ SchedVarsInit
    /\ AlgIdle
    /\ PQOpIdle
    /\ TlsIdle
    /\ SpillIdle

\* Some task enqueues an untied task to the tile.
HwEnqueue ==
    /\ pc = "hw"
    /\ hwEnqueued < MaxHwTasks
    /\ \E ts \in SpillTsValues, flags \in HwFlagChoices :
          hwTasks' = Append(hwTasks,
                            TaskDescriptor(hwEnqueued + 1, ts, flags))
    /\ hwEnqueued' = hwEnqueued + 1
    /\ UNCHANGED <<blocks, requeuers, lastSpill, hwEnqLog>>
    /\ UNCHANGED notSpill

\* spiller(ts, n) / frame_spiller(ts, n): allocate a block of n descriptors,
\* remove tasks into it, then enqueue a requeuer for the block or, when the
\* size is 0, free the block.
Spiller(n, isFrame) ==
    /\ pc = "hw"
    /\ Len(blocks) < MaxSpills
    /\ \E s \in spiller_loops(hwTasks, n, isFrame) :
          LET size  == s.task
              block == Len(blocks) + 1
          IN  /\ hwTasks' = s.q
              /\ blocks' = Append(blocks, spiller_block(s))
              /\ requeuers' = IF size > 0
                              THEN Append(requeuers,
                                          spiller_requeuer(s, isFrame, block))
                              ELSE requeuers
              /\ lastSpill' = [n |-> n, isFrame |-> isFrame,
                               removed |-> s.removed, bounds |-> s.bounds,
                               size |-> size, enqueued |-> size > 0,
                               block |-> block]
    /\ UNCHANGED <<hwEnqueued, hwEnqLog>>
    /\ UNCHANGED notSpill

\* ------------------------------------------------------------ requeuer
\* __enqueueOrYield: asm("sar $16,%%rcx"), the shift that recovers the task
\* pointer from taskPtrAndFlags (pointers of the model are non-negative)
sar16(x) == x \div TaskPtrShift

\* hwtasks.h enqueueMagicOp: (MAGIC_OP_TASK_ENQUEUE_BEGIN + numArgs) | flags
enqueueMagicOp(numArgs, hintFlags) ==
    BitOr(MAGIC_OP_TASK_ENQUEUE_BEGIN + numArgs, hintFlags)

\* An __enqueue_task_skipargs that passes the hint before the task pointer.
enqueue_task_skipargs_hintFirst(op, taskPtr, ts, hint, args) ==
    [op |-> op, regs |-> <<ts>> \o args \o <<hint, taskPtr>>]

\* hwtasks.h __enqueue_task_skipargs: the op and the registers handed to
\* the enqueue instruction, in order: ts unless skipped, the argument
\* words, the task pointer unless skipped, the hint unless skipped.
enqueue_task_skipargs(op, taskPtr, ts, hint, args) ==
    LET skipTask == HasFlag(op, SAMETASK)
        skipHint == HasFlag(op, SAMEHINT) \/ HasFlag(op, NOHINT)
        skipTs   == \/ HasFlag(op, NOTIMESTAMP)
                    \/ HasFlag(op, SAMETIME)
                    \/ HasFlag(op, RUNONABORT)
    IN  [op |-> op,
         regs |-> (IF skipTs THEN <<>> ELSE <<ts>>)
                  \o args
                  \o (IF skipTask THEN <<>> ELSE <<taskPtr>>)
                  \o (IF skipHint THEN <<>> ELSE <<hint>>)]

\* __enqueueOrYield<isFrame>(task), when the queue has room: the enqueue
\* instruction it issues.
enqueueOrYield(task, isFrame) ==
    LET ef0 == BitOr(YIELDIFFULL, BitAnd(task.taskPtrAndFlags, FlagsMask))
        ef  == IF isFrame THEN BitOr(ef0, PARENTDOMAIN) ELSE ef0
        taskPtr == sar16(task.taskPtrAndFlags)
    IN  TheOnly({enqueue_task_skipargs(magicOp, taskPtr, task.ts,
                                       task.hint, task.args)
                 : magicOp \in {enqueueMagicOp(PLS_APP_MAX_ARGS, ef)}})

\* The task the hardware makes of an enqueue instruction, following the
\* register convention of hwtasks.h: the low four bits of the op count the
\* argument words, the other bits below MAGIC_OP_TASK_ENQUEUE_BEGIN are the
\* flags, and the flags tell which of ts, task pointer and hint were passed.
HwDecodeEnqueue(call) ==
    LET low     == call.op % MAGIC_OP_TASK_ENQUEUE_BEGIN
        numArgs == low % 16
        flags   == low - numArgs
        hasTs   == ~(\/ HasFlag(flags, NOTIMESTAMP)
                     \/ HasFlag(flags, SAMETIME)
                     \/ HasFlag(flags, RUNONABORT))
        hasTask == ~HasFlag(flags, SAMETASK)
        hasHint == ~(HasFlag(flags, SAMEHINT) \/ HasFlag(flags, NOHINT))
        a0      == IF hasTs THEN 1 ELSE 0
        t0      == a0 + numArgs
        h0      == IF hasTask THEN t0 + 1 ELSE t0
    IN  [timestamped |-> hasTs,
         ts      |-> IF hasTs THEN call.regs[1] ELSE 0,
         args    |-> SubSeq(call.regs, a0 + 1, a0 + numArgs),
         hasTask |-> hasTask,
         taskPtr |-> IF hasTask THEN call.regs[t0 + 1] ELSE 0,
         hasHint |-> hasHint,
         hint    |-> IF hasHint THEN call.regs[h0 + 1] ELSE 0,
         flags   |-> flags]

\* A requeuer that enqueues the last descriptor and forgets descs->size--.
requeuer_loop_noDecrement(descs, k, isFrame, out) ==
    IF k = 0 \/ descs.size = 0
    THEN [descs |-> descs, out |-> out]
    ELSE [descs |-> descs,
          out |-> out \o [i \in {1} |->
                    [index |-> descs.size,
                     task |-> HwDecodeEnqueue(
                                 enqueueOrYield(descs.tds[descs.size],
                                                isFrame))]]]

\* requeuer_impl: k iterations of while (descs->size), none of which finds
\* the queue full: __enqueueOrYield(descs->tds[descs->size - 1]);
\* descs->size--.  out collects what was enqueued.
RECURSIVE requeuer_loop(_, _, _, _)
requeuer_loop(descs, k, isFrame, out) ==
    IF k = 0 \/ descs.size = 0
    THEN [descs |-> descs, out |-> out]
    ELSE requeuer_loop(
            [descs EXCEPT !.size = @ - 1], k - 1, isFrame,
            out \o [i \in {1} |->
                       [index |-> descs.size,
                        task |-> TheOnly(
                           {HwDecodeEnqueue(call) : call \in
                              {enqueueOrYield(descs.tds[descs.size],
                                              isFrame)}})]])

\* One execution of requeuer r (requeuer / frame_requeuer): the queue takes
\* k descriptors; then either the block is empty and is freed, or the queue
\* is full at the next enqueue and the requeuer yields, to be executed again
\* from the start with the same block.
RequeuerRun(r, k) ==
    /\ pc = "hw"
    /\ r \in DOMAIN requeuers
    /\ requeuers[r].state = "queued"
    /\ k <= blocks[requeuers[r].descs].size
    /\ \E res \in {requeuer_loop(blocks[requeuers[r].descs], k,
                                  requeuers[r].fn = "frame_requeuer", <<>>)} :
       LET b        == requeuers[r].descs
           isFrame  == requeuers[r].fn = "frame_requeuer"
           finished == res.descs.size = 0
       IN  /\ finished \/ requeuers[r].yields < MaxYields
           /\ blocks' = [blocks EXCEPT ![b] =
                  [res.descs EXCEPT
                      !.frees = IF finished THEN @ + 1 ELSE @,
                      !.usedAfterFree = @ \/ blocks[b].frees > 0]]
           /\ requeuers' = [requeuers EXCEPT
                  ![r].state = IF finished THEN "done" ELSE "queued",
                  ![r].yields = IF finished THEN @ ELSE @ + 1]
           /\ hwEnqLog' = hwEnqLog \o
                  [i \in 1..Len(res.out) |->
                      [requeuer |-> r, block |-> b, isFrame |-> isFrame,
                       index |-> res.out[i].index,
                       task |-> res.out[i].task]]
    /\ UNCHANGED <<hwTasks, hwEnqueued, lastSpill>>
    /\ UNCHANGED notSpill

\* An execution of a requeuer that finds the queue full at once
RequeuerYieldAtOnce == \E r \in DOMAIN requeuers : RequeuerRun(r, 0)

\* An execution of a requeuer in which the queue takes a descriptor or more
RequeuerProgress ==
    \E r \in DOMAIN requeuers :
        \E k \in 1..blocks[requeuers[r].descs].size : RequeuerRun(r, k)

NextSpill ==
    \/ HwEnqueue
    \/ \E n \in 0..MaxSpillN : Spiller(n, FALSE)
    \/ \E n \in 0..MaxSpillN : Spiller(n, TRUE)
    \/ RequeuerYieldAtOnce
    \/ RequeuerProgress

SpecSpill == InitSpill /\ [][NextSpill]_vars

\* The tile when a spiller is launched on a full queue: MaxHwTasks untied
\* tasks, each with or without a timestamp.
FullQueues ==
    {q \in [1..MaxHwTasks -> [ts : 0..MaxSpillTs,
                               flags : {0, NOTIMESTAMP}]] : TRUE}

InitRequeue ==
    /\ backend = "hw"
    /\ pc = "hw"
    /\ SchedVarsInit
    /\ AlgIdle
    /\ PQOpIdle
    /\ TlsIdle
    /\ \E q \in FullQueues :
          hwTasks = [i \in 1..MaxHwTasks |->
                        TaskDescriptor(i, q[i].ts, q[i].flags)]
    /\ hwEnqueued = MaxHwTasks
    /\ blocks = <<>>
    /\ requeuers = <<>>
    /\ lastSpill = NoSpill
    /\ hwEnqLog = <<>>

NextRequeue ==
    \/ \E n \in 0..MaxSpillN : Spiller(n, FALSE)
    \/ \E n \in 0..MaxSpillN : Spiller(n, TRUE)
    \/ RequeuerYieldAtOnce
    \/ RequeuerProgress

\* Fairness: the queue has room again and again, so a requeuer that is
\* waiting gets to enqueue a descriptor.
FairSpecRequeue ==
    InitRequeue /\ [][NextRequeue]_vars /\ WF_vars(RequeuerProgress)

\* Fairness: the single thread of the sequential and oracle back-ends keeps
\* executing while it has a next statement.
FairSpec == Spec /\ WF_vars(Next)

\* ------------------------------------------------------------ enqueue_all
\* A bag holding each element of the sequence s as often as s holds it
BagOfSeq(s) ==
    [x \in {s[i] : i \in DOMAIN s} |->
        Cardinality({i \in DOMAIN s : s[i] = x})]

\* algorithm.h: ilog2(i) == 63 - __builtin_clzl(i)
RECURSIVE ilog2(_)
ilog2(i) == IF i <= 1 THEN 0 ELSE 1 + ilog2(i \div 2)

\* 1u << k
RECURSIVE Shl1(_)
Shl1(k) == IF k = 0 THEN 1 ELSE 2 * Shl1(k - 1)

\* std::min
StdMin(a, b) == IF b < a THEN b ELSE a

\* The timestamp lambda applied to the element at an iterator position: the
\* elements carry non-decreasing timestamps, either element i has timestamp
\* i or all elements have the timestamp of the first (an unordered iterable).
TsFn(it) == IF eaCfg.tsl = "same" THEN eaCfg.first ELSE it

\* An enqueuer task in the task queue.  fn is the task function, [first,
\* last) its range (a strand task has begin in first and the descriptor's
\* last in last), enq the enqueue lambda it applies, stride the stride of a
\* strand task.
EaTask(fn, first, last, ts, enq, stride) ==
    [fn |-> fn, first |-> first, last |-> last, ts |-> ts, enq |-> enq,
     stride |-> stride]

\* What a piece of code does: the positions it calls the user's enqueue
\* lambda with, and the tasks it enqueues.
EaEffect(calls, tasks) == [calls |-> calls, tasks |-> tasks]

\* enqueue_all (strands): maxstrands = min(num_threads() * numstrands,
\* MaxStrands)
ea_maxstrands(cfg) == StdMin(NumWorkers * 4, cfg.MaxStrands)

\* The lambda the strand variant passes to the tree of enqueuers: strand s
\* starts at first + s * EnqueuesPerTask.
strandStart(s, cfg) ==
    LET sbegin == cfg.first + s * cfg.EnqueuesPerTask
    IN  EaTask("strand", sbegin, cfg.last, TsFn(sbegin), "user",
               ea_maxstrands(cfg) * cfg.EnqueuesPerTask)

\* __enqueue_for_each: for (; first != last; ++first) enq(ts, *first)
enqueue_for_each(ts, first, last, enq, cfg) ==
    IF enq = "user"
    THEN EaEffect(SetToBag(first..(last - 1)), EmptyBag)
    ELSE EaEffect(EmptyBag,
                  BagOfSeq([k \in 1..(last - first) |->
                               strandStart(first + k - 1, cfg)]))

\* __enqueue_lg_fanout
enqueue_lg_fanout(first, last, twoWay) ==
    LET T == (max_children * max_children) \div 2
    IN  IF ~twoWay /\ (last - first) > T THEN ilog2(max_children)
        ELSE IF ~twoWay /\ (last - first) > T \div 2
             THEN ilog2(max_children \div 2)
        ELSE ilog2(2)

\* An enqueuer whose last child ends where the others do.
enqueuer_lastEnd_short(start, len, last) == start + len

\* __enqueuer: the last child gets what is left, [start, last)
enqueuer_lastEnd(start, len, last) == last

\* __enqueuer, __enqueuerNoLmb, __enqueuerTSFn on a range longer than
\* max_children: the children, left to right.  Only __enqueuerTSFn
\* recomputes the timestamp, from the first element of each child but the
\* left-most.
enqueuer_children(t, twoWay) ==
    LET lgfanout == enqueue_lg_fanout(t.first, t.last, twoWay)
        fanout   == Shl1(lgfanout)
        len      == (t.last - t.first) \div fanout
    IN  [i \in 1..fanout |->
            LET start == t.first + (i - 1) * len
            IN  EaTask(t.fn, start,
                       IF i < fanout THEN start + len
                       ELSE enqueuer_lastEnd(start, len, t.last),
                       IF t.fn = "__enqueuerTSFn" /\ i > 1
                       THEN TsFn(start) ELSE t.ts,
                       t.enq, 0)]

\* __enqueuer / __enqueuerNoLmb / __enqueuerTSFn
enqueuer(t, cfg) ==
    IF (t.last - t.first) <= max_children
    THEN enqueue_for_each(IF t.fn = "__enqueuerTSFn" THEN TsFn(t.first)
                          ELSE t.ts,
                          t.first, t.last, t.enq, cfg)
    ELSE EaEffect(EmptyBag, BagOfSeq(enqueuer_children(t, cfg.twoWay)))

\* The enqueuer function each specialisation of __EnqueueAll uses
EnqueuerOf(variant) ==
    CASE variant = "stateful"  -> "__enqueuer"
      [] variant = "stateless" -> "__enqueuerNoLmb"
      [] variant = "tsfn"      -> "__enqueuerTSFn"

\* __EnqueueAll::operator(): the three specialisations.  Under SEQ_RUNTIME
\* the stateless and the timestamp-lambda specialisation always take the
\* serial branch.
EnqueueAllOp(variant, MaxBaseEnqs, first, last, enq, ts, cfg) ==
    IF (variant # "stateful" /\ cfg.seq) \/ (last - first) <= MaxBaseEnqs
    THEN enqueue_for_each(ts, first, last, enq, cfg)
    ELSE LET midpoint == IF MaxBaseEnqs > 1
                         THEN first + (last - first) \div 2
                         ELSE last
             fn == EnqueuerOf(variant)
         IN  EaEffect(EmptyBag,
                 SetToBag({EaTask(fn, first, midpoint, ts, enq, 0)})
                 (+) (IF MaxBaseEnqs > 1
                      THEN SetToBag({EaTask(fn, midpoint, last,
                                 IF variant = "tsfn" THEN TsFn(midpoint)
                                 ELSE ts, enq, 0)})
                      ELSE EmptyBag))

\* enqueue_all with a hint lambda (strands)
enqueue_all_strands(cfg) ==
    LET n == cfg.last - cfg.first
        strands == n \div cfg.EnqueuesPerTask
    IN  IF cfg.seq \/ n <= cfg.MaxBaseEnqs
        THEN enqueue_for_each(TsFn(cfg.first), cfg.first, cfg.last, "user",
                              cfg)
        ELSE IF strands < ea_maxstrands(cfg)
        THEN EnqueueAllOp("tsfn", cfg.MaxBaseEnqs, cfg.first, cfg.last,
                          "user", TsFn(cfg.first), cfg)
        ELSE EnqueueAllOp("stateful", cfg.MaxBaseEnqs, 0,
                          ea_maxstrands(cfg), "strandStart",
                          TsFn(cfg.first), cfg)

\* A cleanup task enqueued at the timestamp of the strand task itself.
finish_ts_same(ts) == ts

\* __EnqueueStrandsData::operator(): swarm::enqueue(del, ts + 1, ...);
\* __EnqueueProgressiveByPointer::finish(): swarm::enqueue(del,
\* swarm::timestamp() + 1, ...)
finish_ts(ts) == ts + 1

\* A strand task whose next slot is one stride and one item further.
strand_next_skew(begin, stride) == begin + stride + 1

\* __EnqueueStrandsData::operator(): Iterator next = begin + stride
strand_next(begin, stride) == begin + stride

\* __EnqueueStrandsData::operator()
strand(t, cfg) ==
    LET begin == t.first
        end   == StdMin(begin + cfg.EnqueuesPerTask, t.last)
        next  == strand_next(begin, t.stride)
    IN  EaEffect(SetToBag(begin..(end - 1)),
                 IF next < t.last
                 THEN SetToBag({EaTask("strand", next, t.last, TsFn(next),
                                       "user", t.stride)})
                 ELSE IF end = t.last
                 THEN SetToBag({EaTask("del", 0, 0, finish_ts(t.ts), "user", 0)})
                 ELSE EmptyBag)

\* enqueue_all_progressive
enqueue_all_progressive(cfg) ==
    LET n == cfg.last - cfg.first
    IN  IF cfg.seq \/ n <= cfg.MaxBaseEnqs
        THEN enqueue_for_each(TsFn(cfg.first), cfg.first, cfg.last, "user",
                              cfg)
        ELSE EaEffect(EmptyBag,
                      SetToBag({EaTask("progressive", cfg.first, cfg.last,
                                       TsFn(cfg.first), "user",
                                       cfg.EnqueuesPerTask)}))

\* A progressive strand that spawns two strands without doubling the stride.
progressive_widen_same(stride) == stride

\* __EnqueueProgressiveBy*::operator(): reenqueue(left, 2 * stride);
\* reenqueue(right, 2 * stride)
progressive_widen(stride) == 2 * stride

\* __EnqueueProgressiveByPointer::operator() and
\* __EnqueueProgressiveByValue::operator(); only the former has finish().
progressive(t, cfg) ==
    LET begin == t.first
        end   == StdMin(begin + cfg.EnqueuesPerTask, t.last)
        left  == begin + t.stride
        right == begin + 2 * t.stride
        maxstride == ea_maxstrands(cfg) * cfg.EnqueuesPerTask
        reenqueue(b, s) == EaTask("progressive", b, t.last, TsFn(b),
                                  "user", s)
    IN  EaEffect(SetToBag(begin..(end - 1)),
                 IF left < t.last
                 THEN IF right < t.last /\ t.stride < maxstride
                      THEN SetToBag({reenqueue(left,
                                               progressive_widen(t.stride))})
                           (+) SetToBag({reenqueue(right,
                                               progressive_widen(t.stride))})
                      ELSE SetToBag({reenqueue(left, t.stride)})
                 ELSE IF end = t.last /\ cfg.byPointer
                 THEN SetToBag({EaTask("del", 0, 0, finish_ts(t.ts), "user", 0)})
                 ELSE EmptyBag)

\* The calls of enqueue_all the model makes: the tree variants on ranges up
\* to MaxEaRange, the strand and progressive variants on ranges up to
\* MaxStrandRange; the range starts at position 1.
EaTreeConfigs ==
    [variant : {"stateful", "stateless", "tsfn"}, first : {1},
     last : 1..(1 + MaxEaRange), MaxBaseEnqs : 0..MaxBaseEnqsBound,
     EnqueuesPerTask : {1}, MaxStrands : {1}, seq : BOOLEAN,
     twoWay : BOOLEAN, byPointer : {FALSE}, tsl : {"index"}]

EaStrandConfigs ==
    [variant : {"strands"}, first : {1},
     last : 1..(1 + MaxStrandRange), MaxBaseEnqs : 0..MaxBaseEnqsBound,
     EnqueuesPerTask : 1..MaxEnqueuesPerTask, MaxStrands : 1..MaxStrandsBound,
     seq : BOOLEAN, twoWay : {FALSE}, byPointer : {TRUE},
     tsl : {"index", "same"}]
    \cup
    [variant : {"progressive"}, first : {1},
     last : 1..(1 + MaxStrandRange), MaxBaseEnqs : 0..MaxBaseEnqsBound,
     EnqueuesPerTask : 1..MaxEnqueuesPerTask, MaxStrands : 1..MaxStrandsBound,
     seq : BOOLEAN, twoWay : {FALSE}, byPointer : BOOLEAN,
     tsl : {"index", "same"}]

InitEnqAll ==
    /\ backend = "hw"
    /\ pc = "hw"
    /\ SchedVarsInit
    /\ PQOpIdle
    /\ TlsIdle
    /\ SpillIdle
    /\ RedIdle
    /\ MemIdle
    /\ FaIdle
    /\ ThrIdle
    /\ eaCfg \in EaTreeConfigs \cup EaStrandConfigs
    /\ eaPhase = "call"
    /\ eaTasks = EmptyBag
    /\ eaCalls = EmptyBag
    /\ eaDesc = NoDesc

\* The effect e of a piece of code on the task queue and on the record of
\* the calls of the user's lambda
EaApply(e) ==
    /\ eaCalls' = eaCalls (+) e.calls
    /\ eaTasks' = eaTasks (+) e.tasks

\* The task t has the least timestamp of the queued tasks: the machine runs
\* the tasks so that they appear to run in timestamp order, tasks of equal
\* timestamp in any order.
EaInOrder(t) == \A u \in BagToSet(eaTasks) : t.ts <= u.ts

\* The same, for the task t that ran and is gone from the queue
EaApplyTask(t, e) ==
    /\ eaCalls' = eaCalls (+) e.calls
    /\ eaTasks' = (eaTasks (-) SetToBag({t})) (+) e.tasks

\* enqueue_all(first, last, enq, ts) with an integer timestamp or a
\* timestamp lambda
EnqueueAllTree ==
    /\ eaPhase = "call"
    /\ eaCfg.variant \in {"stateful", "stateless", "tsfn"}
    /\ EaApply(EnqueueAllOp(eaCfg.variant, eaCfg.MaxBaseEnqs, eaCfg.first,
                            eaCfg.last, "user", TsFn(eaCfg.first), eaCfg))
    /\ eaPhase' = "run"
    /\ UNCHANGED <<eaCfg, eaDesc>>
    /\ UNCHANGED notAlg

\* enqueue_all(first, last, el, tsl, hl): the descriptor is allocated when
\* the strands are used.
EnqueueAllStrands ==
    /\ eaPhase = "call"
    /\ eaCfg.variant = "strands"
    /\ EaApply(enqueue_all_strands(eaCfg))
    /\ eaPhase' = "run"
    /\ eaDesc' = [eaDesc EXCEPT !.allocated =
                     ~eaCfg.seq
                     /\ (eaCfg.last - eaCfg.first) > eaCfg.MaxBaseEnqs
                     /\ (eaCfg.last - eaCfg.first) \div eaCfg.EnqueuesPerTask
                            >= ea_maxstrands(eaCfg)]
    /\ UNCHANGED eaCfg
    /\ UNCHANGED notAlg

\* enqueue_all_progressive(first, last, el, tsl, hl): the descriptor is
\* allocated when the closure does not fit the task's registers.
EnqueueAllProgressive ==
    /\ eaPhase = "call"
    /\ eaCfg.variant = "progressive"
    /\ EaApply(enqueue_all_progressive(eaCfg))
    /\ eaPhase' = "run"
    /\ eaDesc' = [eaDesc EXCEPT !.allocated =
                     ~eaCfg.seq
                     /\ (eaCfg.last - eaCfg.first) > eaCfg.MaxBaseEnqs
                     /\ eaCfg.byPointer]
    /\ UNCHANGED eaCfg
    /\ UNCHANGED notAlg

\* Some queued __enqueuer, __enqueuerNoLmb or __enqueuerTSFn task runs.
Enqueuer ==
    /\ eaPhase = "run"
    /\ \E t \in BagToSet(eaTasks) :
          /\ t.fn \in {"__enqueuer", "__enqueuerNoLmb", "__enqueuerTSFn"}
          /\ EaApplyTask(t, enqueuer(t, eaCfg))
          /\ eaDesc' = [eaDesc EXCEPT !.inOrder = @ /\ EaInOrder(t)]
    /\ UNCHANGED <<eaCfg, eaPhase>>
    /\ UNCHANGED notAlg

\* Some queued strand task runs; it reads the shared descriptor.
StrandTask ==
    /\ eaPhase = "run"
    /\ \E t \in BagToSet(eaTasks) :
          /\ t.fn = "strand"
          /\ EaApplyTask(t, strand(t, eaCfg))
          /\ eaDesc' = [eaDesc EXCEPT
                           !.readAfterDelete = @ \/ eaDesc.deletes > 0,
                           !.inOrder = @ /\ EaInOrder(t)]
    /\ UNCHANGED <<eaCfg, eaPhase>>
    /\ UNCHANGED notAlg

\* Some queued progressive strand task runs; the by-pointer variant reads
\* the shared descriptor.
ProgressiveTask ==
    /\ eaPhase = "run"
    /\ \E t \in BagToSet(eaTasks) :
          /\ t.fn = "progressive"
          /\ EaApplyTask(t, progressive(t, eaCfg))
          /\ eaDesc' = [eaDesc EXCEPT
                           !.readAfterDelete =
                               @ \/ (eaCfg.byPointer /\ eaDesc.deletes > 0),
                           !.inOrder = @ /\ EaInOrder(t)]
    /\ UNCHANGED <<eaCfg, eaPhase>>
    /\ UNCHANGED notAlg

\* del: delete ed / delete ep
DelTask ==
    /\ eaPhase = "run"
    /\ \E t \in BagToSet(eaTasks) :
          /\ t.fn = "del"
          /\ EaApplyTask(t, EaEffect(EmptyBag, EmptyBag))
          /\ eaDesc' = [eaDesc EXCEPT !.deletes = @ + 1,
                                      !.inOrder = @ /\ EaInOrder(t)]
    /\ UNCHANGED <<eaCfg, eaPhase>>
    /\ UNCHANGED notAlg

NextEnqAll ==
    \/ EnqueueAllTree
    \/ EnqueueAllStrands
    \/ EnqueueAllProgressive
    \/ Enqueuer
    \/ StrandTask
    \/ ProgressiveTask
    \/ DelTask

SpecEnqAll == InitEnqAll /\ [][NextEnqAll]_vars

\* ----------------------------------------------------------------- reduce
\* The binary operation reduce is called with: addition of integers
\* (associative and commutative, identity 0) or concatenation of sequences
\* (associative, not commutative, identity <<>>).
Op(kind, a, b) == IF kind = "plus" THEN a + b ELSE a \o b

Identity(kind) == IF kind = "plus" THEN 0 ELSE <<>>

\* The element at an iterator position
ElementAt(kind, it) == IF kind = "plus" THEN it ELSE <<it>>

\* std::accumulate(first, last, init, o): the left fold
RECURSIVE accumulate(_, _, _, _)
accumulate(kind, first, last, init) ==
    IF first >= last THEN init
    ELSE accumulate(kind, first + 1, last,
                    Op(kind, init, ElementAt(kind, first)))

\* Reducer::blockSize(): std::max(epl, 2u)
blockSize(epl) == IF epl < 2 THEN 2 ELSE epl

\* C++ integer division, which truncates towards zero
CDiv(a, b) == IF a >= 0 THEN a \div b ELSE -((-a) \div b)

\* Reducer::Reducer: numTasks(1 + (std::distance(first, last) - 1) /
\* blockSize())
numTasks(cfg) == 1 + CDiv((cfg.last - cfg.first) - 1, blockSize(cfg.epl))

\* A task of the reduction in the task queue: its function, timestamp and
\* domain (0 is the domain the Reducer task runs in, 1 the domain it
\* creates), the range of an accumulate task, the value of an
\* updateIntermediate task, and the enqueuer task of enqueue_all it is.
NoEaTask == EaTask("none", 0, 0, 0, "user", 0)

RedTask(fn, ts, dom, begin, end, value, ea) ==
    [fn |-> fn, ts |-> ts, dom |-> dom, begin |-> begin, end |-> end,
     value |-> value, ea |-> ea]

\* The lambda the Reducer passes to enqueue_all, for block b: enqueue
\* accumulateBlock at ts for the block starting at first + b * blockSize()
red_enqueueBlock(cfg, ts, dom, b) ==
    LET begin == cfg.first + b * blockSize(cfg.epl)
    IN  RedTask("accumulate", ts, dom, begin, begin + blockSize(cfg.epl),
                Identity(cfg.op), NoEaTask)

\* The tasks a piece of enqueue_all code leaves in the queue when run in
\* domain dom: its enqueuer tasks and, for every call of the lambda, an
\* accumulateBlock task.  All of them have the timestamp 1 the timestamp
\* lambda returns.
RedTasksOf(cfg, e, dom) ==
    LET eaTs == {t : t \in BagToSet(e.tasks)}
    IN  [x \in {RedTask(t.fn, 1, dom, 0, 0, Identity(cfg.op), t)
                : t \in eaTs}
            |-> CopiesIn(x.ea, e.tasks)]
        (+)
        [x \in {red_enqueueBlock(cfg, 1, dom, b) : b \in BagToSet(e.calls)}
            |-> CopiesIn(CDiv(x.begin - cfg.first, blockSize(cfg.epl)),
                         e.calls)]

\* The arguments of the enqueue_all call the Reducer makes:
\* enqueue_all<max_children - 4, max_children - 1>(u64it(0),
\* u64it(numTasks - 1), ...) with MaxStrands at its default, UINT32_MAX
RedEaCfg(cfg) ==
    [variant |-> "strands", first |-> 0, last |-> numTasks(cfg) - 1,
     MaxBaseEnqs |-> max_children - 4,
     EnqueuesPerTask |-> max_children - 1,
     MaxStrands |-> 4 * NumWorkers, seq |-> FALSE, twoWay |-> FALSE,
     byPointer |-> TRUE]

\* Reducer::size = swarm::num_threads(), which is 1 in seq_runtime.h
red_num_threads == IF backend = "seq" THEN 1 ELSE NumWorkers

\* An intermediate as malloc leaves it: not initialised, its value unknown
Uninitialised(kind) == [init |-> FALSE, v |-> Identity(kind)]

\* A Reducer whose finish enqueues the callback without PARENTDOMAIN.
finish_domain_same(dom) == dom

\* Reducer::finish: the callback is enqueued with PARENTDOMAIN
finish_domain(dom) == dom - 1

\* An updateIntermediate that overwrites the intermediate.
updateIntermediate_value_overwrite(kind, intermediate, value) == value

\* Reducer::updateIntermediate: *intermediate = r->o(*intermediate, value)
updateIntermediate_value(kind, intermediate, value) ==
    Op(kind, intermediate, value)

\* Reducer::collapse: the fold of the intermediates, from intermediates[0]
RECURSIVE collapse_fold(_, _, _, _)
collapse_fold(kind, inter, it, accumulator) ==
    IF it > Len(inter) THEN accumulator
    ELSE collapse_fold(kind, inter, it + 1,
                       Op(kind, accumulator, inter[it].v))

\* The calls of reduce the model makes: ranges of up to MaxRedRange
\* elements with addition and of up to MaxRedRangeConcat elements with
\* concatenation, starting at position 1, with callback timestamp 3.
RedConfigs ==
    [op : {"plus"}, first : {1}, last : 1..(1 + MaxRedRange),
     epl : 1..MaxElementsPerLine, ts : {3}]
    \cup
    [op : {"concat"}, first : {1}, last : 1..(1 + MaxRedRangeConcat),
     epl : 1..MaxElementsPerLine, ts : {3}]

\* The tasks that are first in timestamp order within the innermost domain
\* that has tasks: the ones the hardware may run next.
RedRunnable ==
    {t \in BagToSet(redTasks) :
        \A u \in BagToSet(redTasks) :
            u.dom < t.dom \/ (u.dom = t.dom /\ t.ts <= u.ts)}

\* The task t leaves the queue and the tasks of the bag new enter it.
RedStep(t, new) == redTasks' = (redTasks (-) SetToBag({t})) (+) new

InitReduce ==
    /\ backend = "hw"
    /\ pc = "hw"
    /\ SchedVarsInit
    /\ PQOpIdle
    /\ TlsIdle
    /\ SpillIdle
    /\ EaIdle
    /\ MemIdle
    /\ FaIdle
    /\ ThrIdle
    /\ redCfg \in RedConfigs
    /\ redPhase = "call"
    /\ redTasks = EmptyBag
    /\ redInter = <<>>
    /\ redCb = <<>>
    /\ redStat = NoRedStat

\* reduce(first, last, identity, o, ts, cb): allocate the Reducer with its
\* num_threads() intermediates, not initialised, and enqueue it at ts.
Reduce ==
    /\ redPhase = "call"
    /\ redPhase' = "run"
    /\ redTasks' = SetToBag({RedTask("Reducer", redCfg.ts, 0, redCfg.first,
                                     redCfg.last, Identity(redCfg.op),
                                     NoEaTask)})
    /\ redInter' = [w \in 1..red_num_threads |-> Uninitialised(redCfg.op)]
    /\ UNCHANGED <<redCfg, redCb, redStat>>
    /\ UNCHANGED notRed

\* Reducer::operator().  Under the sequential back-end swarm::deepen() ends
\* the program.
ReducerRun ==
    /\ redPhase = "run"
    /\ pc # "aborted"
    /\ \E t \in RedRunnable :
          /\ t.fn = "Reducer"
          /\ IF numTasks(redCfg) = 1
             THEN /\ redCb' = Append(redCb,
                        [value |-> accumulate(redCfg.op, redCfg.first,
                                              redCfg.last,
                                              Identity(redCfg.op)),
                         defined |-> TRUE,
                         ts |-> redCfg.ts, dom |-> t.dom,
                         pending |-> BagCardinality(redTasks) - 1,
                         stat |-> redStat])
                  /\ RedStep(t, EmptyBag)
                  /\ redStat' = [redStat EXCEPT !.frees = @ + 1]
                  /\ UNCHANGED <<redCfg, redPhase, redInter>>
                  /\ UNCHANGED notRed
             ELSE IF backend = "seq"
             THEN SeqDeepen
             ELSE /\ RedStep(t,
                        SetToBag({RedTask("fill", 0, t.dom + 1, 0, 0,
                                          Identity(redCfg.op), NoEaTask)})
                        (+) SetToBag({RedTask("continuation", 1, t.dom + 1,
                                          0, 0, Identity(redCfg.op),
                                          NoEaTask)}))
                  /\ redStat' = [redStat EXCEPT !.deepens = @ + 1]
                  /\ UNCHANGED <<redCfg, redPhase, redInter, redCb>>
                  /\ UNCHANGED notRed

\* The tasks of swarm::fill(intermediates, intermediates + size, identity,
\* 0), taken together
RedFill ==
    /\ redPhase = "run"
    /\ \E t \in RedRunnable :
          /\ t.fn = "fill"
          /\ RedStep(t, EmptyBag)
    /\ redInter' = [w \in 1..NumWorkers |->
                        [init |-> TRUE, v |-> Identity(redCfg.op)]]
    /\ UNCHANGED <<redCfg, redPhase, redCb, redStat>>
    /\ UNCHANGED notRed

\* The continuation between pls_cbegin and pls_cend: enqueue_all of the
\* blocks but the last, accumulate for the last block at timestamp 1,
\* collapse at timestamp 2
RedContinuation ==
    /\ redPhase = "run"
    /\ \E t \in RedRunnable :
          /\ t.fn = "continuation"
          /\ LET begin == redCfg.first
                          + (numTasks(redCfg) - 1) * blockSize(redCfg.epl)
             IN  RedStep(t,
                    RedTasksOf(redCfg, enqueue_all_strands(RedEaCfg(redCfg)),
                               t.dom)
                    (+) SetToBag({RedTask("accumulate", 1, t.dom, begin,
                                          redCfg.last, Identity(redCfg.op),
                                          NoEaTask)})
                    (+) SetToBag({RedTask("collapse", 2, t.dom, 0, 0,
                                          Identity(redCfg.op), NoEaTask)}))
    /\ UNCHANGED <<redCfg, redPhase, redInter, redCb, redStat>>
    /\ UNCHANGED notRed

\* An enqueuer task of the Reducer's enqueue_all runs.
RedEnqueuer ==
    /\ redPhase = "run"
    /\ \E t \in RedRunnable :
          /\ t.fn \in {"__enqueuer", "__enqueuerNoLmb", "__enqueuerTSFn"}
          /\ RedStep(t, RedTasksOf(redCfg, enqueuer(t.ea, RedEaCfg(redCfg)),
                                   t.dom))
    /\ UNCHANGED <<redCfg, redPhase, redInter, redCb, redStat>>
    /\ UNCHANGED notRed

\* Reducer::accumulate and Reducer::accumulateBlock
RedAccumulate ==
    /\ redPhase = "run"
    /\ \E t \in RedRunnable :
          /\ t.fn = "accumulate"
          /\ RedStep(t,
                SetToBag({RedTask("updateIntermediate", t.ts, t.dom, 0, 0,
                                  accumulate(redCfg.op, t.begin, t.end,
                                             Identity(redCfg.op)),
                                  NoEaTask)}))
    /\ redStat' = [redStat EXCEPT !.accumulated = @ + 1]
    /\ UNCHANGED <<redCfg, redPhase, redInter, redCb>>
    /\ UNCHANGED notRed

\* Reducer::updateIntermediate, run by the worker thread tid
RedUpdateIntermediate ==
    /\ redPhase = "run"
    /\ \E t \in RedRunnable, tid \in 1..NumWorkers :
          /\ t.fn = "updateIntermediate"
          /\ RedStep(t, EmptyBag)
          /\ redInter' = [redInter EXCEPT ![tid].v =
                updateIntermediate_value(redCfg.op, @, t.value)]
    /\ redStat' = [redStat EXCEPT !.updated = @ + 1]
    /\ UNCHANGED <<redCfg, redPhase, redCb>>
    /\ UNCHANGED notRed

\* Reducer::collapse and Reducer::finish
RedCollapse ==
    /\ redPhase = "run"
    /\ \E t \in RedRunnable :
          /\ t.fn = "collapse"
          /\ RedStep(t, EmptyBag)
          /\ redCb' = Append(redCb,
                [value |-> collapse_fold(redCfg.op, redInter, 2,
                                         redInter[1].v),
                 defined |-> \A w \in DOMAIN redInter : redInter[w].init,
                 ts |-> redCfg.ts, dom |-> finish_domain(t.dom),
                 pending |-> BagCardinality(redTasks) - 1,
                 stat |-> redStat])
    /\ redStat' = [redStat EXCEPT !.frees = @ + 1]
    /\ UNCHANGED <<redCfg, redPhase, redInter>>
    /\ UNCHANGED notRed

NextReduce ==
    \/ Reduce
    \/ ReducerRun
    \/ RedFill
    \/ RedContinuation
    \/ RedEnqueuer
    \/ RedAccumulate
    \/ RedUpdateIntermediate
    \/ RedCollapse

SpecReduce == InitReduce /\ [][NextReduce]_vars

\* Fairness: the hardware keeps running the tasks in its queue.
FairSpecReduce == SpecReduce /\ WF_vars(NextReduce)

\* The calls of reduce made under the sequential back-end: as RedConfigs,
\* and also over 4-byte elements, of which a cache line holds 16; callback
\* timestamps 3 and 10.
RedSeqConfigs ==
    [op : {"plus"}, first : {1}, last : 1..(1 + MaxRedRange),
     epl : (1..MaxElementsPerLine) \cup {SWARM_CACHE_LINE \div 4},
     ts : {3, 10}]
    \cup
    [op : {"concat"}, first : {1}, last : 1..(1 + MaxRedRangeConcat),
     epl : (1..MaxElementsPerLine) \cup {SWARM_CACHE_LINE \div 4},
     ts : {3}]

\* A program built with the sequential back-end is in run() and calls
\* reduce.
InitReduceSeq ==
    /\ backend = "seq"
    /\ pc = "loop"
    /\ SchedVarsInit
    /\ PQOpIdle
    /\ TlsIdle
    /\ SpillIdle
    /\ EaIdle
    /\ MemIdle
    /\ FaIdle
    /\ ThrIdle
    /\ redCfg \in RedSeqConfigs
    /\ redPhase = "call"
    /\ redTasks = EmptyBag
    /\ redInter = <<>>
    /\ redCb = <<>>
    /\ redStat = NoRedStat

NextReduceSeq ==
    \/ Reduce
    \/ ReducerRun

SpecReduceSeq == InitReduceSeq /\ [][NextReduceSeq]_vars

\* ---------------------------------------------------------- fill and copy
\* The element sizes of the arrays filled: sizeof(*first), a power of two
ElemSizes == {16, 64, 128}

\* num_threads() of the builds filled in: one or two threads, and the
\* oracle's UINT32_MAX / 128
MemThreads == {1, 2, OracleNumThreads}

\* The address the arrays are laid out from: two cache lines lie below it
MemBase == 2 * SWARM_CACHE_LINE

\* addr & ~(bytes - 1ul), for bytes a power of two
AlignDown(addr, bytes) == addr - (addr % bytes)

\* std::max
StdMax(a, b) == IF a < b THEN b ELSE a

\* block.h elementsPerLine, for elements of es bytes
elementsPerLine(es) == StdMax(1, SWARM_CACHE_LINE \div es)

\* fill.h uses block::elementsPerGrain<BlockSize, Iterator>(), whose grain
\* is a whole number of cache lines and a power of two in bytes: BlockSize
\* lines of elementsPerLine elements
elementsPerGrain(BlockSize, es) == BlockSize * elementsPerLine(es)

\* block.h cacheAlign<LinesPerGrain>
cacheAlign(LinesPerGrain, ptr) == ptr \div (SWARM_CACHE_LINE * LinesPerGrain)

\* block.h sameGrain<LinesPerGrain>(first, last): compares the grain of
\* *first with that of *(last - 1)
sameGrain(LinesPerGrain, first, last, es) ==
    cacheAlign(LinesPerGrain, first) = cacheAlign(LinesPerGrain, last - es)

\* block.h grainSize(first, last) for a range of elements elements of eSize
\* bytes.  elemsPerTask is a uint32_t: for an empty range elements - 1
\* wraps to 2^64 - 1 and 1 + (2^64 - 1) / numTasks (nTasks), cut to 32 bits,
\* is 0 for one and for two threads and 4097 for the oracle's 2^27 - 4 tasks.
grainSize(elements, eSize, nthreads) ==
    LET nTasks == 4 * nthreads
        elemsPerTask == IF elements = 0
                        THEN (IF nthreads = OracleNumThreads THEN 4097 ELSE 0)
                        ELSE 1 + (elements - 1) \div nTasks
        cacheLinesPerTask ==
            StdMax(1, (elemsPerTask * eSize) \div SWARM_CACHE_LINE)
    IN  Shl1(ilog2(cacheLinesPerTask))

\* The switch of fill and of copy on the grain size: the template argument
\* the task is instantiated with
BlockSizeOf(g) == IF g \in {1, 2, 4, 8} THEN g ELSE 16

\* A task of a fill or copy in the task queue: the function, its template
\* argument BlockSize (LinesPerGrain), its range [first, last) as addresses
\* and its timestamp; an enqueuer of fill_impl's enqueue_all carries the
\* enqueuer's range in ea and the captured firstRoundedUp in first; a
\* __copier carries its source in src.
MemTask(fn, BlockSize, first, last, ts, ea, src) ==
    [fn |-> fn, BlockSize |-> BlockSize, first |-> first, last |-> last,
     ts |-> ts, ea |-> ea, src |-> src]

\* What a task does: the element addresses it writes, the tasks it
\* enqueues, in order, how it ends ("ok", "aborted" or "crashed") and, for
\* a task that splits its range, where
MemEffect(writes, tasks, outcome, midpoint, split) ==
    [writes |-> writes, tasks |-> tasks, outcome |-> outcome,
     midpoint |-> midpoint, split |-> split]

\* std::fill(first, last, value) over elements of es bytes.  With last
\* below first the loop for (; first != last; ++first) never meets last: it
\* writes on to the end of the mapped memory, memTop, and faults.
std_fill(first, last, es, memTop) ==
    IF first <= last
    THEN MemEffect({first + es * k : k \in 0..((last - first) \div es - 1)},
                   <<>>, "ok", 0, FALSE)
    ELSE MemEffect({first + es * k : k \in 0..((memTop - first) \div es)},
                   <<>>, "crashed", 0, FALSE)

\* __filler: the midpoint of a range that is split, and whether the
\* assertion on it holds
filler_midpoint(first, last, es) ==
    LET midpoint    == first + es * CDiv((last - first) \div es, 2)
        alignedAddr == AlignDown(midpoint, SWARM_CACHE_LINE)
    IN  IF alignedAddr = first
        THEN LET m == first + es * (SWARM_CACHE_LINE \div es)
             IN  [midpoint |-> m, asserted |-> m < last]
        ELSE IF midpoint # alignedAddr
        THEN LET backwardBytes == midpoint % SWARM_CACHE_LINE
                 backwardElems == backwardBytes \div es
                 m == midpoint - es * backwardElems
             IN  [midpoint |-> m, asserted |-> m > first]
        ELSE [midpoint |-> midpoint, asserted |-> TRUE]

\* __filler<BlockSize>(ts, first, last, value) in a build with NDEBUG (nd)
\* or without
filler(t, es, nd, memTop) ==
    IF t.first = t.last
    THEN MemEffect({}, <<>>, "ok", 0, FALSE)
    ELSE IF sameGrain(t.BlockSize, t.first, t.last, es)
    THEN std_fill(t.first, t.last, es, memTop)
    ELSE LET m == filler_midpoint(t.first, t.last, es)
         IN  IF ~m.asserted /\ ~nd
             THEN MemEffect({}, <<>>, "aborted", m.midpoint, TRUE)
             ELSE MemEffect({},
                     <<MemTask("__filler", t.BlockSize, t.first, m.midpoint,
                               t.ts, NoEaTask, 0),
                       MemTask("__filler", t.BlockSize, m.midpoint, t.last,
                               t.ts, NoEaTask, 0)>>,
                     "ok", m.midpoint, TRUE)

\* The elements of a set of tasks with distinct first, lowest first
RECURSIVE SortByFirst(_)
SortByFirst(S) ==
    IF S = {} THEN <<>>
    ELSE LET m == CHOOSE x \in S : \A y \in S : x.first <= y.first
         IN  <<m>> \o SortByFirst(S \ {m})

\* The elements of a set of numbers, lowest first
RECURSIVE SortNat(_)
SortNat(S) ==
    IF S = {} THEN <<>>
    ELSE LET m == CHOOSE x \in S : \A y \in S : x <= y
         IN  <<m>> \o SortNat(S \ {m})

\* fill_impl: the __writer task its lambda enqueues for grain i
fill_writer(i, BlockSize, firstRoundedUp, es, ts) ==
    LET grainBytes == elementsPerGrain(BlockSize, es) * es
    IN  MemTask("__writer", BlockSize, firstRoundedUp + i * grainBytes,
                firstRoundedUp + (i + 1) * grainBytes, ts, NoEaTask, 0)

\* What a piece of fill_impl's enqueue_all enqueues: a __writer per call of
\* the lambda and the enqueuer tasks, which keep the lambda's captured
\* firstRoundedUp
fill_tasksOf(e, BlockSize, firstRoundedUp, es, ts) ==
    LET calls == SortNat(BagToSet(e.calls))
        encs  == SortByFirst(BagToSet(e.tasks))
    IN  [k \in 1..Len(calls) |->
            fill_writer(calls[k], BlockSize, firstRoundedUp, es, ts)]
        \o [k \in 1..Len(encs) |->
               MemTask(encs[k].fn, BlockSize, firstRoundedUp, 0, ts,
                       encs[k], 0)]

\* fill_impl: firstAddrRoundedUp
fill_roundUp(firstAddr, grainBytes) ==
    AlignDown(firstAddr + grainBytes - 1, grainBytes)

\* fill_impl<BlockSize>(ts, first, last, value); cfg holds the build's
\* PLS_ENQUEUE_ALL_2_WAY_FANOUT in twoWay
fill_impl(t, es, cfg, memTop) ==
    LET grainSz    == elementsPerGrain(t.BlockSize, es)
        grainBytes == grainSz * es
        firstAddrRoundedUp == fill_roundUp(t.first, grainBytes)
    IN  IF firstAddrRoundedUp >= t.last
        THEN std_fill(t.first, t.last, es, memTop)
        ELSE LET grains == ((t.last - firstAddrRoundedUp) \div es)
                               \div grainSz
                 lastRoundedDown == firstAddrRoundedUp + grains * grainBytes
                 e == EnqueueAllOp("stateful", max_children - 2, 0, grains,
                                   "user", t.ts, cfg)
             IN  MemEffect({},
                    <<MemTask("__writer", t.BlockSize, t.first,
                              firstAddrRoundedUp, t.ts, NoEaTask, 0)>>
                    \o fill_tasksOf(e, t.BlockSize, firstAddrRoundedUp, es,
                                    t.ts)
                    \o (IF lastRoundedDown < t.last
                        THEN <<MemTask("__writer", t.BlockSize,
                                       lastRoundedDown, t.last, t.ts,
                                       NoEaTask, 0)>>
                        ELSE <<>>),
                    "ok", 0, FALSE)

\* fill(first, last, value, ts) of fill.h ("fill") and of the header with
\* __filler ("fill_filler"): one task, instantiated for the grain size
fill(cfg) ==
    LET grain == grainSize(cfg.n, cfg.es, cfg.nthreads)
        last      == cfg.first + cfg.n * cfg.es
    IN  <<MemTask(IF cfg.alg = "fill" THEN "fill_impl" ELSE "__filler",
                  BlockSizeOf(grain), cfg.first, last, cfg.ts,
                  NoEaTask, 0)>>

\* The calls of fill checked: every element size, start offset, length,
\* thread count and value
FillConfigs ==
    [alg : {"fill", "fill_filler"}, es : ElemSizes,
     first : {MemBase + es * o : es \in ElemSizes, o \in 0..MaxFillOffset},
     n : 0..MaxFillLen, nthreads : MemThreads, twoWay : BOOLEAN,
     ts : {MaxTs}, value : {1}]

\* The end of the memory mapped around the array of a call
MemTop(cfg) == cfg.first + cfg.n * cfg.es + SWARM_CACHE_LINE

InitFill ==
    /\ backend = "hw"
    /\ ndebug \in BOOLEAN
    /\ pc = "hw"
    /\ SchedStateInit
    /\ PQOpIdle
    /\ TlsIdle
    /\ SpillIdle
    /\ EaIdle
    /\ RedIdle
    /\ FaIdle
    /\ ThrIdle
    /\ memCfg \in {c \in FillConfigs :
                      /\ (c.first - MemBase) % c.es = 0
                      /\ (c.first - MemBase) \div c.es <= MaxFillOffset
                      /\ c.alg = "fill_filler" => ~c.twoWay}
    /\ memPhase = "call"
    /\ memTasks = <<>>
    /\ memWritten = {}
    /\ memLast = NoMemTask

\* The task at the head of the queue runs with effect e.
MemStep(t, e) ==
    /\ memTasks' = Tail(memTasks) \o e.tasks
    /\ memWritten' = memWritten \cup
                        {[addr |-> a, val |-> memCfg.value] : a \in e.writes}
    /\ memPhase' = IF e.outcome = "ok" THEN memPhase ELSE e.outcome
    /\ memLast' = [fn |-> t.fn, first |-> t.first, last |-> t.last,
                   midpoint |-> e.midpoint, split |-> e.split,
                   rewrote |-> \E w \in memWritten : w.addr \in e.writes]
    /\ UNCHANGED memCfg
    /\ UNCHANGED notMem

\* The program calls swarm::fill.
Fill ==
    /\ memPhase = "call"
    /\ memCfg.alg \in {"fill", "fill_filler"}
    /\ memPhase' = "run"
    /\ memTasks' = fill(memCfg)
    /\ UNCHANGED <<memCfg, memWritten, memLast>>
    /\ UNCHANGED notMem

\* A fill_impl task runs.
FillImplRun ==
    /\ memPhase = "run"
    /\ memTasks # <<>>
    /\ Head(memTasks).fn = "fill_impl"
    /\ \E t \in {Head(memTasks)} :
          MemStep(t, fill_impl(t, memCfg.es, memCfg, MemTop(memCfg)))

\* A __filler task runs.
FillerRun ==
    /\ memPhase = "run"
    /\ memTasks # <<>>
    /\ Head(memTasks).fn = "__filler"
    /\ \E t \in {Head(memTasks)} :
          MemStep(t, filler(t, memCfg.es, ndebug, MemTop(memCfg)))

\* A __writer task runs: std::fill(first, last, value).
WriterRun ==
    /\ memPhase = "run"
    /\ memTasks # <<>>
    /\ Head(memTasks).fn = "__writer"
    /\ \E t \in {Head(memTasks)} :
          MemStep(t, std_fill(t.first, t.last, memCfg.es, MemTop(memCfg)))

\* An enqueuer task of fill_impl's enqueue_all runs.
MemEnqueuer ==
    /\ memPhase = "run"
    /\ memTasks # <<>>
    /\ Head(memTasks).fn = "__enqueuer"
    /\ \E t \in {Head(memTasks)} :
          MemStep(t, MemEffect({},
                        fill_tasksOf(enqueuer(t.ea, memCfg), t.BlockSize,
                                     t.first, memCfg.es, t.ts),
                        "ok", 0, FALSE))

\* The tasks of one fill carry one timestamp and the machine makes them
\* appear to run one at a time; what a task writes and enqueues depends on
\* its arguments only, so they are run here in the order enqueued.
NextFill ==
    \/ Fill
    \/ FillImplRun
    \/ FillerRun
    \/ WriterRun
    \/ MemEnqueuer

SpecFill == InitFill /\ [][NextFill]_vars

\* ------------------------------------------------------------------ copy
\* swarm::copy(first, last, d_first, ts) of oracle_tasks.h lines 118-196 over
\* elements of one byte: memCfg.src is the address of *first, memCfg.first
\* that of *d_first and memCfg.n the number of bytes.  A byte written to the
\* destination is recorded with the address of the source byte it holds.

\* The first destination address of the calls: a cache-line boundary with
\* room for a source range below it
CopyBase == SWARM_CACHE_LINE * (2 + MaxCopyBytes \div SWARM_CACHE_LINE)

\* The test of copy with the comparisons made inclusive
copy_overlaps_adjacent(source, dest, bytes) ==
    source <= dest + bytes /\ dest <= source + bytes

\* copy: if (source < dest + bytes && dest < source + bytes) std::abort()
copy_overlaps(source, dest, bytes) ==
    source < dest + bytes /\ dest < source + bytes

\* copy: abort, or one __copier<grain> at ts over (dest, source, bytes)
copy(cfg) ==
    LET source == cfg.src
        dest   == cfg.first
        bytes  == cfg.n * cfg.es
    IN  IF copy_overlaps(source, dest, bytes)
        THEN MemEffect({}, <<>>, "aborted", 0, FALSE)
        ELSE MemEffect({},
                <<MemTask("__copier",
                          BlockSizeOf(grainSize(bytes, 1, cfg.nthreads)),
                          dest, dest + bytes, cfg.ts, NoEaTask, source)>>,
                "ok", 0, FALSE)

\* A __copier that cuts at the cache line of the midpoint wherever it lies.
copier_cutAddr_noBump(aligned, dest) == aligned

\* __copier: d_cutAddr, the start of the midpoint's cache line, moved one
\* line up when it is not above dest
copier_cutAddr(aligned, dest) ==
    IF aligned <= dest THEN aligned + SWARM_CACHE_LINE ELSE aligned

\* __copier<LinesPerGrain>(ts, dest, source, bytes) with dest = t.first,
\* bytes = t.last - t.first and source = t.src
copier(t, nd) ==
    LET dest  == t.first
        bytes == t.last - t.first
    IN  IF bytes = 0
        THEN MemEffect({}, <<>>, "ok", 0, FALSE)
        ELSE IF sameGrain(t.BlockSize, dest, dest + bytes, 1)
        THEN MemEffect(dest..(dest + bytes - 1), <<>>, "ok", 0, FALSE)
        ELSE LET d_midpoint == dest + bytes \div 2
                 aligned    == AlignDown(d_midpoint, SWARM_CACHE_LINE)
                 d_cutAddr  == copier_cutAddr(aligned, dest)
                 leftHalfBytes == d_cutAddr - dest
                 asserted   == d_cutAddr > dest /\ leftHalfBytes < bytes
             IN  IF ~asserted
                 THEN MemEffect({}, <<>>,
                                IF nd THEN "crashed" ELSE "aborted",
                                d_cutAddr, TRUE)
                 ELSE MemEffect({},
                        <<MemTask("__copier", t.BlockSize, dest, d_cutAddr,
                                  t.ts, NoEaTask, t.src),
                          MemTask("__copier", t.BlockSize, d_cutAddr, t.last,
                                  t.ts, NoEaTask, t.src + leftHalfBytes)>>,
                        "ok", d_cutAddr, TRUE)

\* The source addresses tried for a destination: around both ends of the
\* destination range, where the ranges begin and cease to overlap
CopySources(dest, bytes) ==
    {dest + d : d \in {-(bytes + 1), -bytes, 1 - bytes, -1, 0, 1,
                       bytes - 1, bytes, bytes + 1}}

CopyConfigs ==
    [alg : {"copy"}, es : {1},
     first : {CopyBase + o : o \in 0..MaxCopyOffset} \cup
             {CopyBase + SWARM_CACHE_LINE - 1 - o : o \in 0..MaxCopyOffset},
     src : (CopyBase - MaxCopyBytes - 1)..
           (CopyBase + SWARM_CACHE_LINE + 2 * MaxCopyBytes + 1),
     n : 0..MaxCopyBytes, nthreads : MemThreads, twoWay : {FALSE},
     ts : {MaxTs}, value : {0}]

InitCopy ==
    /\ backend = "hw"
    /\ ndebug \in BOOLEAN
    /\ pc = "hw"
    /\ SchedStateInit
    /\ PQOpIdle
    /\ TlsIdle
    /\ SpillIdle
    /\ EaIdle
    /\ RedIdle
    /\ FaIdle
    /\ ThrIdle
    /\ memCfg \in {c \in CopyConfigs : c.src \in CopySources(c.first, c.n)}
    /\ memPhase = "call"
    /\ memTasks = <<>>
    /\ memWritten = {}
    /\ memLast = NoMemTask

\* The program calls swarm::copy.
Copy ==
    /\ memPhase = "call"
    /\ memCfg.alg = "copy"
    /\ \E e \in {copy(memCfg)} :
          /\ memPhase' = IF e.outcome = "ok" THEN "run" ELSE e.outcome
          /\ memTasks' = e.tasks
    /\ UNCHANGED <<memCfg, memWritten, memLast>>
    /\ UNCHANGED notMem

\* A __copier task runs.
CopierRun ==
    /\ memPhase = "run"
    /\ memTasks # <<>>
    /\ Head(memTasks).fn = "__copier"
    /\ \E t \in {Head(memTasks)} : \E e \in {copier(t, ndebug)} :
          /\ memTasks' = Tail(memTasks) \o e.tasks
          /\ memWritten' = memWritten \cup
                {[addr |-> a, val |-> t.src + (a - t.first)] : a \in e.writes}
          /\ memPhase' = IF e.outcome = "ok" THEN memPhase ELSE e.outcome
          /\ memLast' = [fn |-> t.fn, first |-> t.first, last |-> t.last,
                         midpoint |-> e.midpoint, split |-> e.split,
                         rewrote |-> \E w \in memWritten :
                                        w.addr \in e.writes]
    /\ UNCHANGED memCfg
    /\ UNCHANGED notMem

NextCopy ==
    \/ Copy
    \/ CopierRun

SpecCopy == InitCopy /\ [][NextCopy]_vars

\* ---------------------------------------------------------------- forall
\* swarm::forall(ts, first, sup, hl, bl, tl) with IterType an unsigned type
\* of IterTypeMax + 1 values.  The tasks of one forall carry one timestamp:
\* the machine runs them one at a time, in any order.

\* Conversion of an integer to IterType
ToIterType(x) == x % (IterTypeMax + 1)

\* A task of a forall in the task queue: a strand task, the loop data's
\* operator() at index i ("strand"), the lambda that counts a finished
\* strand ("counter"), the lambda that calls tl ("term"), or an enqueuer
\* task ea of enqueue_all
FaTask(fn, i, ea) == [fn |-> fn, i |-> i, ea |-> ea]

\* A call of the termination lambda: made in place by the caller (direct),
\* or by a task at timestamp taskTs; the timestamp it is passed and, for a
\* reduction, the value
TlCall(direct, taskTs, ts, value) ==
    [direct |-> direct, taskTs |-> taskTs, ts |-> ts, value |-> value]

\* forall: stride = std::min(sup - first, (IterType) num_threads()*4)
forall_stride(n, nthreads) == StdMin(n, ToIterType(nthreads) * 4)

\* The tasks a piece of forall's enqueue_all leaves in the queue: a strand
\* task at first + s for every call of the lambda with s, and the enqueuer
\* tasks
FaTasksOf(e, first) ==
    [x \in {FaTask("strand", ToIterType(first + s), NoEaTask)
            : s \in BagToSet(e.calls)}
        |-> BagCardinality(
                [s \in {c \in BagToSet(e.calls) :
                           ToIterType(first + c) = x.i}
                    |-> CopiesIn(s, e.calls)])]
    (+)
    [x \in {FaTask(t.fn, 0, t) : t \in BagToSet(e.tasks)}
        |-> CopiesIn(x.ea, e.tasks)]

\* __ForallLoopData::operator(): if (next < sup)
loopData_next(next, sup) == next < sup

\* __ForallLoopData::operator(): if (last == stride)
loopData_last(last, stride) == last = stride

FaConfigs ==
    [first : {0, IterTypeMax - MaxForallLen}, n : 0..MaxForallLen,
     nthreads : MemThreads, ts : {MaxTs}, seq : {FALSE}, twoWay : {FALSE}]

InitForall ==
    /\ backend = "hw"
    /\ pc = "hw"
    /\ SchedVarsInit
    /\ PQOpIdle
    /\ TlsIdle
    /\ SpillIdle
    /\ EaIdle
    /\ RedIdle
    /\ MemIdle
    /\ ThrIdle
    /\ faCfg \in FaConfigs
    /\ faPhase = "call"
    /\ faTasks = EmptyBag
    /\ faData = NoLoopData
    /\ faBody = EmptyBag
    /\ faTerm = 0
    /\ faTermLog = <<>>

\* The program calls swarm::forall.  For an empty range tl(ts) is called in
\* place; otherwise the loop data is allocated and enqueue_all enqueues a
\* strand task for each of the stride strands.
Forall ==
    /\ faPhase = "call"
    /\ LET sup == faCfg.first + faCfg.n
           stride == forall_stride(faCfg.n, faCfg.nthreads)
       IN  IF sup = faCfg.first
           THEN /\ faTerm' = faTerm + 1
                /\ faTermLog' = Append(faTermLog,
                                       TlCall(TRUE, 0, faCfg.ts, 0))
                /\ faPhase' = "done"
                /\ UNCHANGED <<faTasks, faData>>
           ELSE /\ faData' = [live |-> "allocated", sup |-> sup,
                              stride |-> stride, strandsFinished |-> 0]
                /\ faTasks' = FaTasksOf(
                                 EnqueueAllOp("stateful", max_children, 0,
                                              stride, "user", faCfg.ts,
                                              faCfg),
                                 faCfg.first)
                /\ faPhase' = "run"
                /\ UNCHANGED <<faTerm, faTermLog>>
    /\ UNCHANGED <<faCfg, faBody>>
    /\ UNCHANGED notFa

\* An enqueuer task of forall's enqueue_all runs.
FaEnqueuer ==
    /\ faPhase = "run"
    /\ \E t \in BagToSet(faTasks) :
          /\ t.fn = "__enqueuer"
          /\ faTasks' = (faTasks (-) SetToBag({t}))
                           (+) FaTasksOf(enqueuer(t.ea, faCfg), faCfg.first)
    /\ UNCHANGED <<faCfg, faPhase, faData, faBody, faTerm, faTermLog>>
    /\ UNCHANGED notFa

\* A strand task runs: bl(ts, i), then the strand task at i + stride is
\* enqueued, or the lambda that counts the strand as finished.  The record
\* of the body's calls is kept to MaxForallCalls calls more than the range has
\* indices.
FaStrand ==
    /\ faPhase = "run"
    /\ BagCardinality(faBody) < faCfg.n + MaxForallCalls
    /\ \E t \in BagToSet(faTasks) :
          /\ t.fn = "strand"
          /\ faBody' = faBody (+) SetToBag({t.i})
          /\ LET next == ToIterType(t.i + faData.stride)
             IN  faTasks' = (faTasks (-) SetToBag({t})) (+)
                    SetToBag({IF loopData_next(next, faData.sup)
                              THEN FaTask("strand", next, NoEaTask)
                              ELSE FaTask("counter", 0, NoEaTask)})
    /\ UNCHANGED <<faCfg, faPhase, faData, faTerm, faTermLog>>
    /\ UNCHANGED notFa

\* The lambda a finished strand enqueued runs: __sync_add_and_fetch on
\* strandsFinished; the one that gets stride enqueues the lambda that calls
\* tl.
FaCounter ==
    /\ faPhase = "run"
    /\ \E t \in BagToSet(faTasks) :
          /\ t.fn = "counter"
          /\ LET last == ToIterType(faData.strandsFinished + 1)
             IN  /\ faData' = [faData EXCEPT !.strandsFinished = last]
                 /\ faTasks' = (faTasks (-) SetToBag({t})) (+)
                       (IF loopData_last(last, faData.stride)
                        THEN SetToBag({FaTask("term", 0, NoEaTask)})
                        ELSE EmptyBag)
    /\ UNCHANGED <<faCfg, faPhase, faBody, faTerm, faTermLog>>
    /\ UNCHANGED notFa

\* The termination task runs: tl(ts); delete this.
FaTermination ==
    /\ faPhase = "run"
    /\ \E t \in BagToSet(faTasks) :
          /\ t.fn = "term"
          /\ faTasks' = faTasks (-) SetToBag({t})
    /\ faTerm' = faTerm + 1
    /\ faTermLog' = Append(faTermLog, TlCall(FALSE, faCfg.ts, faCfg.ts, 0))
    /\ faData' = [faData EXCEPT !.live = "deleted"]
    /\ UNCHANGED <<faCfg, faPhase, faBody>>
    /\ UNCHANGED notFa

NextForall ==
    \/ Forall
    \/ FaEnqueuer
    \/ FaStrand
    \/ FaCounter
    \/ FaTermination

SpecForall == InitForall /\ [][NextForall]_vars

\* -------------------------------------------------------------- forall_ts
\* swarm::forall_ts(ts, first, sup, hl, bl, tlhl, tl): the strand tasks run at
\* ts, in any order; the continuation that calls tl is a task at ts + 1, which
\* the machine runs when no task at ts is left.

\* forall_ts: stride = std::min((sup - first)/4 + 1,
\* (IterType) num_threads()*4)
forall_ts_stride(n, nthreads) ==
    StdMin(CDiv(n, 4) + 1, ToIterType(nthreads) * 4)

\* __ForallTSLoopData::operator(): else if (next == sup)
tsLoopData_last(next, sup) == next = sup

\* The calls of forall_ts: the short ranges at the bottom and at the top of
\* IterType with every number of threads, and one range with more strands
\* than max_children, which enqueue_all starts through enqueuer tasks.
FaTsConfigs ==
    [first : {0, IterTypeMax - MaxForallTsLen}, n : 0..MaxForallTsLen,
     nthreads : MemThreads, ts : {MaxTs}, seq : {FALSE}, twoWay : {FALSE}]
    \cup [first : {0}, n : {ForallTsLongLen}, nthreads : {OracleNumThreads},
          ts : {MaxTs}, seq : {FALSE}, twoWay : {FALSE}]

InitForallTs ==
    /\ backend = "hw"
    /\ pc = "hw"
    /\ SchedVarsInit
    /\ PQOpIdle
    /\ TlsIdle
    /\ SpillIdle
    /\ EaIdle
    /\ RedIdle
    /\ MemIdle
    /\ ThrIdle
    /\ faCfg \in FaTsConfigs
    /\ faPhase = "call"
    /\ faTasks = EmptyBag
    /\ faData = NoLoopData
    /\ faBody = EmptyBag
    /\ faTerm = 0
    /\ faTermLog = <<>>

\* The program calls swarm::forall_ts.  For an empty range tl(ts + 1) is
\* called in place; otherwise the loop data is allocated and enqueue_all
\* enqueues a strand task for each of the stride strands.
ForallTs ==
    /\ faPhase = "call"
    /\ LET sup == faCfg.first + faCfg.n
           stride == forall_ts_stride(faCfg.n, faCfg.nthreads)
       IN  IF sup = faCfg.first
           THEN /\ faTerm' = faTerm + 1
                /\ faTermLog' = Append(faTermLog,
                                       TlCall(TRUE, 0, faCfg.ts + 1, 0))
                /\ faPhase' = "done"
                /\ UNCHANGED <<faTasks, faData>>
           ELSE /\ faData' = [live |-> "allocated", sup |-> sup,
                              stride |-> stride, strandsFinished |-> 0]
                /\ faTasks' = FaTasksOf(
                                 EnqueueAllOp("stateful", max_children, 0,
                                              stride, "user", faCfg.ts,
                                              faCfg),
                                 faCfg.first)
                /\ faPhase' = "run"
                /\ UNCHANGED <<faTerm, faTermLog>>
    /\ UNCHANGED <<faCfg, faBody>>
    /\ UNCHANGED notFa

\* A strand task runs: bl(ts, i), then the strand task at i + stride is
\* enqueued, or, when i + stride is sup, the continuation at ts + 1 that
\* calls tl.  The record of the body's calls is kept to MaxForallCalls calls
\* more than the range has indices.
FaTsStrand ==
    /\ faPhase = "run"
    /\ BagCardinality(faBody) < faCfg.n + MaxForallCalls
    /\ \E t \in BagToSet(faTasks) :
          /\ t.fn = "strand"
          /\ faBody' = faBody (+) SetToBag({t.i})
          /\ LET next == ToIterType(t.i + faData.stride)
             IN  faTasks' = (faTasks (-) SetToBag({t})) (+)
                    (IF loopData_next(next, faData.sup)
                     THEN SetToBag({FaTask("strand", next, NoEaTask)})
                     ELSE IF tsLoopData_last(next, faData.sup)
                     THEN SetToBag({FaTask("term", 0, NoEaTask)})
                     ELSE EmptyBag)
    /\ UNCHANGED <<faCfg, faPhase, faData, faTerm, faTermLog>>
    /\ UNCHANGED notFa

\* The continuation at ts + 1 runs, no task at ts being left: tl(ts) with
\* the continuation's own timestamp; delete this.
FaTsTermination ==
    /\ faPhase = "run"
    /\ \A u \in BagToSet(faTasks) : u.fn = "term"
    /\ \E t \in BagToSet(faTasks) :
          /\ t.fn = "term"
          /\ faTasks' = faTasks (-) SetToBag({t})
    /\ faTerm' = faTerm + 1
    /\ faTermLog' = Append(faTermLog,
                           TlCall(FALSE, faCfg.ts + 1, faCfg.ts + 1, 0))
    /\ faData' = [faData EXCEPT !.live = "deleted"]
    /\ UNCHANGED <<faCfg, faPhase, faBody>>
    /\ UNCHANGED notFa

NextForallTs ==
    \/ ForallTs
    \/ FaEnqueuer
    \/ FaTsStrand
    \/ FaTsTermination

SpecForallTs == InitForallTs /\ [][NextForallTs]_vars

\* -------------------------------------------------------------- forallred
\* swarm::forallred(ts, first, sup, hl, bl, initialValue, rl, tl) and
\* swarm::forallred_seq with the same arguments.  The body lambda passes the
\* value of its iteration to the continuation it is given, bl(ts, i, cc)
\* calling cc->run(ts, BodyValue(i)); the reduction lambda is addition.  All
\* tasks of a forallred carry the timestamp ts: the machine runs them one at
\* a time, in any order.

\* The value iteration i of the body contributes
BodyValue(i) == i

\* The reduction lambda: redVal += r
redLambda(redVal, r) == redVal + r

\* A __ForallRedLoopCont as its constructor leaves it: redVal(l->
\* initialValue), syncsLeft(-1)
LoopCont(parent, initialValue) ==
    [parent |-> parent, redVal |-> initialValue, syncsLeft |-> -1,
     live |-> TRUE]

\* A task of a forallred in the task queue: the expansion of the
\* continuation lc over [f, s) ("expand"), the continuation's operator() at
\* index f ("body"), or the lambda run() enqueues to fold r into the
\* continuation ("reduce")
RedLoopTask(fn, lc, f, s, r) == [fn |-> fn, lc |-> lc, f |-> f, s |-> s, r |-> r]

\* __ForallRedLoopCont::expand: uint32_t radix = std::min((IterType)8,
\* (iters + 7)/8)
expand_radix(iters) == StdMin(8, CDiv(iters + 7, 8))

\* __ForallRedLoopCont::expand(ts, first, sup) on the continuation lc, the
\* continuations allocated so far being conts: the continuations afterwards,
\* the indices the body was called with in place, and the tasks enqueued
expand(conts, lc, first, sup, initialValue) ==
    LET iters == sup - first
    IN  IF iters = 1
        THEN [conts |-> [conts EXCEPT ![lc].syncsLeft = 1],
              body |-> SetToBag({first}),
              tasks |-> SetToBag({RedLoopTask("reduce", lc, 0, 0,
                                              BodyValue(first))})]
        ELSE IF iters <= max_children
        THEN [conts |-> [conts EXCEPT ![lc].syncsLeft = iters],
              body |-> EmptyBag,
              tasks |-> SetToBag({RedLoopTask("body", lc, i, 0, 0)
                                  : i \in first..(sup - 1)})]
        ELSE LET radix == expand_radix(iters)
                 f(i) == first + CDiv(i * iters, radix)
             IN  [conts |-> [conts EXCEPT ![lc].syncsLeft = radix]
                              \o [i \in 1..radix |->
                                     LoopCont(lc, initialValue)],
                  body |-> EmptyBag,
                  tasks |-> SetToBag({RedLoopTask("expand",
                                         Len(conts) + i + 1, f(i), f(i + 1),
                                         0)
                                      : i \in 0..(radix - 1)})]

\* forallred_seq, LoopCont::run(ts, r) with r the value of iteration cur, and
\* the body and run calls that follow from it: the value tl is called with
RECURSIVE seq_run(_, _, _)
seq_run(cur, sup, redVal) ==
    LET rv == redLambda(redVal, BodyValue(cur))
    IN  IF cur + 1 = sup THEN rv ELSE seq_run(cur + 1, sup, rv)

\* forallred_seq(ts, first, sup, hl, bl, initialValue, rl, tl): the value tl
\* is called with
forallred_seq(first, sup, initialValue) ==
    IF sup = first THEN initialValue ELSE seq_run(first, sup, initialValue)

\* The initial values of the reductions: the identity of addition and a
\* value that is not
RedInitialValues == {0, 1}

FaRedConfigs ==
    [alg : {"forallred", "forallred_seq"}, first : {1},
     n : 0..MaxForallRedLen, initialValue : RedInitialValues, ts : {MaxTs}]

InitForallRed ==
    /\ backend = "hw"
    /\ pc = "hw"
    /\ SchedVarsInit
    /\ PQOpIdle
    /\ TlsIdle
    /\ SpillIdle
    /\ EaIdle
    /\ RedIdle
    /\ MemIdle
    /\ ThrIdle
    /\ faCfg \in FaRedConfigs
    /\ faPhase = "call"
    /\ faTasks = EmptyBag
    /\ faData = <<>>
    /\ faBody = EmptyBag
    /\ faTerm = 0
    /\ faTermLog = <<>>

\* The program calls swarm::forallred.  For an empty range tl(ts,
\* initialValue) is called in place; otherwise the root continuation is
\* allocated and expanded in place.
ForallRed ==
    /\ faPhase = "call"
    /\ faCfg.alg = "forallred"
    /\ LET sup == faCfg.first + faCfg.n
       IN  IF sup = faCfg.first
           THEN /\ faTerm' = faTerm + 1
                /\ faTermLog' = Append(faTermLog,
                                   TlCall(TRUE, 0, faCfg.ts,
                                          faCfg.initialValue))
                /\ faPhase' = "done"
                /\ UNCHANGED <<faTasks, faData, faBody>>
           ELSE \E e \in {expand(<<LoopCont(0, faCfg.initialValue)>>, 1,
                                 faCfg.first, sup, faCfg.initialValue)} :
                   /\ faData' = e.conts
                   /\ faTasks' = e.tasks
                   /\ faBody' = e.body
                   /\ faPhase' = "run"
                   /\ UNCHANGED <<faTerm, faTermLog>>
    /\ UNCHANGED faCfg
    /\ UNCHANGED notFa

\* The program calls swarm::forallred_seq: the whole loop runs in place, the
\* body and the continuation calling each other.
ForallRedSeq ==
    /\ faPhase = "call"
    /\ faCfg.alg = "forallred_seq"
    /\ faTerm' = faTerm + 1
    /\ faTermLog' = Append(faTermLog,
                       TlCall(TRUE, 0, faCfg.ts,
                              forallred_seq(faCfg.first,
                                            faCfg.first + faCfg.n,
                                            faCfg.initialValue)))
    /\ faBody' = SetToBag(faCfg.first..(faCfg.first + faCfg.n - 1))
    /\ faPhase' = "done"
    /\ UNCHANGED <<faCfg, faTasks, faData>>
    /\ UNCHANGED notFa

\* An expansion task runs: lc->expand(ts, f, s).
FrExpand ==
    /\ faPhase = "run"
    /\ \E t \in BagToSet(faTasks) :
          /\ t.fn = "expand"
          /\ \E e \in {expand(faData, t.lc, t.f, t.s, faCfg.initialValue)} :
                /\ faData' = e.conts
                /\ faTasks' = (faTasks (-) SetToBag({t})) (+) e.tasks
                /\ faBody' = faBody (+) e.body
    /\ UNCHANGED <<faCfg, faPhase, faTerm, faTermLog>>
    /\ UNCHANGED notFa

\* A body task runs: __ForallRedLoopCont::operator()(ts, i) calls the body,
\* which calls run(ts, r) of the continuation, which enqueues the reduction.
FrBody ==
    /\ faPhase = "run"
    /\ \E t \in BagToSet(faTasks) :
          /\ t.fn = "body"
          /\ faBody' = faBody (+) SetToBag({t.f})
          /\ faTasks' = (faTasks (-) SetToBag({t})) (+)
                SetToBag({RedLoopTask("reduce", t.lc, 0, 0,
                                      BodyValue(t.f))})
    /\ UNCHANGED <<faCfg, faPhase, faData, faTerm, faTermLog>>
    /\ UNCHANGED notFa

\* The lambda of __ForallRedLoopCont::run runs: redLambda(redVal, r); when
\* syncsLeft reaches 0 the value goes to the parent's run or, at the root, to
\* the termination lambda, and the continuation is deleted.
FrReduce ==
    /\ faPhase = "run"
    /\ \E t \in BagToSet(faTasks) :
          /\ t.fn = "reduce"
          /\ LET redVal == redLambda(faData[t.lc].redVal, t.r)
                 syncsLeft == faData[t.lc].syncsLeft - 1
                 parent == faData[t.lc].parent
             IN  /\ faData' = [faData EXCEPT ![t.lc].redVal = redVal,
                                             ![t.lc].syncsLeft = syncsLeft,
                                             ![t.lc].live = syncsLeft # 0]
                 /\ faTasks' = (faTasks (-) SetToBag({t})) (+)
                       (IF syncsLeft = 0 /\ parent # 0
                        THEN SetToBag({RedLoopTask("reduce", parent, 0, 0,
                                                   redVal)})
                        ELSE EmptyBag)
                 /\ IF syncsLeft = 0 /\ parent = 0
                    THEN /\ faTerm' = faTerm + 1
                         /\ faTermLog' = Append(faTermLog,
                                TlCall(FALSE, faCfg.ts, faCfg.ts, redVal))
                    ELSE UNCHANGED <<faTerm, faTermLog>>
    /\ UNCHANGED <<faCfg, faPhase, faBody>>
    /\ UNCHANGED notFa

NextForallRed ==
    \/ ForallRed
    \/ ForallRedSeq
    \/ FrExpand
    \/ FrBody
    \/ FrReduce

SpecForallRed == InitForallRed /\ [][NextForallRed]_vars

\* ------------------------------------------------------------ properties
\* log[i] was invoked no later than log[j] in (ts, insertion) order; the
\* address of a task record grows with its insertion index.
TsInsertionOrdered(a, b) == a.ts < b.ts \/ (a.ts = b.ts /\ a.ptr < b.ptr)

\* The sequential run whose tasks enqueue nothing further
SeqNoFurtherEnqueue ==
    /\ backend = "seq"
    /\ pc \in {"loop", "task", "done"}
    /\ enqueuedByMain = nextPtr - 1

\* C1 as stated: under the sequential back-end, when the tasks enqueue
\* nothing further, tasks are invoked in non-decreasing (ts, insertion
\* index) order, equal timestamps in enqueue order.
C1_InsertionOrder ==
    SeqNoFurtherEnqueue =>
        \A i, j \in DOMAIN log : i < j => TsInsertionOrdered(log[i], log[j])

\* C1 amended: under the sequential back-end, when the tasks enqueue
\* nothing further, tasks are invoked in non-decreasing timestamp order;
\* the order among equal timestamps is whatever the binary heap yields.
C1_TsOrder ==
    SeqNoFurtherEnqueue =>
        \A i, j \in DOMAIN log : i < j => log[i].ts <= log[j].ts

\* A finished sequential run of at least three tasks, enqueued out of
\* timestamp order and with a tie among them.
C1_Witness ==
    /\ SeqNoFurtherEnqueue
    /\ pc = "done"
    /\ Len(log) >= 3
    /\ \E i, j \in DOMAIN log : i < j /\ log[i].ptr > log[j].ptr
                                /\ log[i].ts < log[j].ts
    /\ \E i, j \in DOMAIN log : i # j /\ log[i].ts = log[j].ts

\* C2: in the sequential and oracle back-ends no task is invoked twice, and
\* when run() returns every task enqueued, before run() or by a running
\* task, has been invoked.
C2_ExactlyOnce ==
    /\ \A i, j \in DOMAIN log : i # j => log[i].ptr # log[j].ptr
    /\ pc = "done" => {log[i].ptr : i \in DOMAIN log} = 1..(nextPtr - 1)

\* run() has returned after invoking three tasks or more, two of them with
\* the same timestamp and one of them enqueued by a running task.
C2_Witness ==
    /\ pc = "done"
    /\ Len(log) >= 3
    /\ nextPtr - 1 > enqueuedByMain
    /\ \E i, j \in DOMAIN log : i # j /\ log[i].ts = log[j].ts

\* C3 as stated: in every back-end, timestamp() called inside a running
\* task returns the timestamp the task was enqueued with.
C3_TimestampIsEnqueueTs ==
    pc = "task" => timestamp = running.ts

\* Two tasks invoked from the same queue
SameDomain(a, b) == a.dom = b.dom

\* The timestamps dequeued from each single domain never decrease.
DequeuesNonDecreasing ==
    \A i, j \in DOMAIN log :
        (i < j /\ SameDomain(log[i], log[j])) => log[i].ts <= log[j].ts

\* C4 as stated: within one domain the dequeued timestamps are
\* non-decreasing over the whole run, whatever the tasks enqueue.
C4_NonDecreasing == DequeuesNonDecreasing

\* C4 amended: within one domain the dequeued timestamps are non-decreasing
\* provided no enqueue carries a timestamp smaller than that of the task
\* most recently dequeued from the domain it goes to.
C4_NonDecreasingIfMonotone == monotone => DequeuesNonDecreasing

\* A finished run in which a running task enqueued a task, every enqueue was
\* monotone, and tasks of different timestamps ran.
C4_Witness ==
    /\ monotone
    /\ pc = "done"
    /\ nextPtr - 1 > enqueuedByMain
    /\ Len(log) >= 3
    /\ \E i, j \in DOMAIN log : log[i].ts # log[j].ts

C7_SuperTimestamp ==
    (backend = "oracle" /\ pc = "task") =>
        /\ Len(pqs) = 1 => superTimestamp = UINT64_MAX
        /\ Len(pqs) > 1 =>
              superTimestamp = domHist[StackTop(pqs).ptr].creatorTs

\* A task runs in a nested domain under a creator with another timestamp.
C7_Witness ==
    /\ backend = "oracle"
    /\ pc = "task"
    /\ Len(pqs) > 1
    /\ log[Len(log)].dom = StackTop(pqs).ptr
    /\ superTimestamp # running.ts

\* Every queue of the back-end in use is empty (the oracle's stack is).
AllQueuesEmpty == IF backend = "seq" THEN empty(pq) ELSE pqs = <<>>

\* C8: a run that enqueues finitely many tasks ends (run() returns, or the
\* program aborts on a fatal call), and when run() returns every queue is
\* empty and the oracle's domain stack is empty.
C8_Terminates ==
    /\ <>(pc \in {"done", "aborted"})
    /\ [](pc = "done" => AllQueuesEmpty)

\* run() of the oracle back-end returned after a deepen() and three tasks.
C8_Witness ==
    /\ backend = "oracle"
    /\ pc = "done"
    /\ nextDom > 2
    /\ Len(log) >= 3
    /\ pqs = <<>>

\* The least element of a non-empty set of numbers
Min(S) == CHOOSE x \in S : \A y \in S : x <= y

\* The task records held in a vector
RecordsOf(c) == {c[i] : i \in 1..Len(c)}

\* C5: after any sequence of push and dequeueTop, dequeueTop on a non-empty
\* queue removes exactly one task, whose timestamp is at most that of every
\* task remaining, push adds exactly the pushed task, and minTs() is the
\* least timestamp in the queue.
C5_DequeueTopIsMin ==
    /\ lastOp.op = "dequeueTop" =>
          /\ lastOp.v \in RecordsOf(lastOp.before)
          /\ RecordsOf(pq) = RecordsOf(lastOp.before) \ {lastOp.v}
          /\ Len(pq) = Len(lastOp.before) - 1
          /\ \A t \in RecordsOf(pq) : lastOp.v.ts <= t.ts
    /\ lastOp.op = "push" =>
          /\ RecordsOf(pq) = RecordsOf(lastOp.before) \cup {lastOp.v}
          /\ Len(pq) = Len(lastOp.before) + 1
    /\ (pc = "pq" /\ ~empty(pq)) => pq_minTs(pq) = Min(TsOf(pq))

\* dequeueTop returned one of two tasks tied for the least timestamp and
\* left three or more tasks, one of them later than the task returned.
C5_Witness ==
    /\ lastOp.op = "dequeueTop"
    /\ Len(pq) >= 3
    /\ \E t \in RecordsOf(pq) : t.ts = lastOp.v.ts
    /\ \E t \in RecordsOf(pq) : t.ts > lastOp.v.ts
    /\ lastOp.v.ptr > 1

\* C9: in the TLS back-end, whenever a worker dequeues a task, the worker's
\* minTs at that moment is at most the task's timestamp.
C9_MinTsLowerBound ==
    backend = "tls" =>
        \A i \in DOMAIN log : log[i].minTs <= log[i].ts

\* A worker dequeued a task that a task run by another worker had enqueued,
\* with a timestamp below that of the task the worker had dequeued before.
C9_Witness ==
    /\ backend = "tls"
    /\ \E i, j, k \in DOMAIN log :
          /\ i < j /\ j < k
          /\ log[i].worker = log[k].worker
          /\ log[j].worker # log[k].worker
          /\ log[k].ptr > enqueuedByMain
          /\ log[k].ts < log[j].ts
          /\ log[k].minTs > 0

\* The requeuer the last spiller run enqueued
LastRequeuer == requeuers[Len(requeuers)]

\* Every task the last spiller run removed carries the flag f
AllRemovedHave(f) ==
    \A i \in DOMAIN lastSpill.removed :
        HasFlag(lastSpill.removed[i].taskPtrAndFlags, f)

\* C10: the requeuer a non-frame spiller enqueues after removing at least
\* one task carries NOTIMESTAMP iff every task it removed carries
\* NOTIMESTAMP, and carries CANTSPEC iff every task it removed carries
\* CANTSPEC.
C10_RequeuerFlags ==
    (~lastSpill.isFrame /\ lastSpill.removed # <<>> /\ lastSpill.enqueued) =>
        /\ LastRequeuer.descs = lastSpill.block
        /\ HasFlag(LastRequeuer.flags, NOTIMESTAMP)
              <=> AllRemovedHave(NOTIMESTAMP)
        /\ HasFlag(LastRequeuer.flags, CANTSPEC) <=> AllRemovedHave(CANTSPEC)

\* A non-frame spiller removed a timestamped task, then a task without
\* timestamp, then another timestamped one, all CANTSPEC, and enqueued a
\* requeuer that carries CANTSPEC and not NOTIMESTAMP.
C10_Witness ==
    /\ ~lastSpill.isFrame
    /\ lastSpill.enqueued
    /\ Len(lastSpill.removed) = 3
    /\ ~HasFlag(lastSpill.removed[1].taskPtrAndFlags, NOTIMESTAMP)
    /\ HasFlag(lastSpill.removed[2].taskPtrAndFlags, NOTIMESTAMP)
    /\ ~HasFlag(lastSpill.removed[3].taskPtrAndFlags, NOTIMESTAMP)
    /\ AllRemovedHave(CANTSPEC)
    /\ HasFlag(LastRequeuer.flags, CANTSPEC)
    /\ ~HasFlag(LastRequeuer.flags, NOTIMESTAMP)

\* --------------------------------------------------- spill and requeue
\* The persistent flags (bits 4..15) of a flag word or of taskPtrAndFlags
PersistentFlags(x) == (x % TaskPtrShift) - (x % 16)

\* The task pointer (the bits from 16 up) of taskPtrAndFlags
TaskPtrOf(x) == (x - (x % TaskPtrShift)) \div TaskPtrShift

\* The task the remove instruction returned that a log entry re-enqueues
RemovedOf(e) == blocks[e.block].removed[e.index]

\* C11: every task a non-frame requeuer re-enqueues has the timestamp (none
\* for a task without timestamp), hint, task pointer, argument words and
\* persistent flags of the task the spiller removed into that descriptor,
\* and the only flag added is YIELDIFFULL.
C11_RoundTrip ==
    \A i \in DOMAIN hwEnqLog :
        LET e == hwEnqLog[i]
            T == RemovedOf(e)
            t == e.task
        IN  ~e.isFrame =>
              /\ t.timestamped <=> ~HasFlag(T.taskPtrAndFlags, NOTIMESTAMP)
              /\ t.timestamped => t.ts = T.ts
              /\ t.hasHint /\ t.hint = T.hint
              /\ t.hasTask /\ t.taskPtr = TaskPtrOf(T.taskPtrAndFlags)
              /\ t.args = T.args
              /\ PersistentFlags(t.flags) = PersistentFlags(T.taskPtrAndFlags)
              /\ t.flags = PersistentFlags(T.taskPtrAndFlags) + YIELDIFFULL

\* A non-frame requeuer re-enqueued a task without timestamp and a
\* timestamped task with a timestamp above 0 and two persistent flags.
C11_Witness ==
    \E i, j \in DOMAIN hwEnqLog :
        /\ ~hwEnqLog[i].isFrame
        /\ hwEnqLog[i].block = hwEnqLog[j].block
        /\ ~hwEnqLog[i].task.timestamped
        /\ hwEnqLog[j].task.timestamped
        /\ hwEnqLog[j].task.ts > 0
        /\ PersistentFlags(hwEnqLog[j].task.flags) = PRODUCER + MAYSPEC

\* The requeuers that were handed the block at address b
RequeuersOf(b) == {r \in DOMAIN requeuers : requeuers[r].descs = b}

\* C12 as stated: a spiller run enqueues exactly one requeuer when the
\* remove instruction returned at least one task; when it returned none, no
\* requeuer is enqueued and the block is freed.
C12_OneRequeuerIffExtracted ==
    \A b \in DOMAIN blocks :
        /\ blocks[b].removed # <<>> => Cardinality(RequeuersOf(b)) = 1
        /\ blocks[b].removed = <<>> =>
              (RequeuersOf(b) = {} /\ blocks[b].frees = 1)

\* The timestamps of the timestamped tasks in a sequence of descriptors
TimestampedTs(tds) ==
    {tds[i].ts : i \in {j \in DOMAIN tds :
                           ~HasFlag(tds[j].taskPtrAndFlags, NOTIMESTAMP)}}

\* C13: the timestamp of a non-frame requeuer is the least timestamp among
\* the timestamped tasks its spiller removed, hence at most the timestamp of
\* every timestamped task stored in its block.
C13_RequeuerTsIsMin ==
    \A r \in DOMAIN requeuers :
        LET b == blocks[requeuers[r].descs]
        IN  (requeuers[r].fn = "requeuer" /\ TimestampedTs(b.removed) # {}) =>
              /\ requeuers[r].ts = Min(TimestampedTs(b.removed))
              /\ \A ts \in TimestampedTs(SubSeq(b.tds, 1, b.spilled)) :
                    requeuers[r].ts <= ts

\* A non-frame spiller removed a timestamped task with a timestamp above 0,
\* then a task without timestamp, then a task with timestamp 0, and its
\* requeuer got timestamp 0.
C13_Witness ==
    \E r \in DOMAIN requeuers :
        LET b == blocks[requeuers[r].descs]
        IN  /\ requeuers[r].fn = "requeuer"
            /\ Len(b.removed) = 3
            /\ b.spilled = 3
            /\ ~HasFlag(b.removed[1].taskPtrAndFlags, NOTIMESTAMP)
            /\ b.removed[1].ts > 0
            /\ HasFlag(b.removed[2].taskPtrAndFlags, NOTIMESTAMP)
            /\ ~HasFlag(b.removed[3].taskPtrAndFlags, NOTIMESTAMP)
            /\ requeuers[r].ts = 0

\* The positions in the log of the enqueues made from the block at b
LogOf(b) == {i \in DOMAIN hwEnqLog : hwEnqLog[i].block = b}

\* The descriptors of every block were re-enqueued from the highest index
\* down, each one once and none skipped, as far as the block's size tells.
RequeuedDescending ==
    \A b \in DOMAIN blocks :
        /\ \A i, j \in LogOf(b) :
              i < j => hwEnqLog[i].index > hwEnqLog[j].index
        /\ {hwEnqLog[i].index : i \in LogOf(b)} =
              (blocks[b].size + 1)..blocks[b].spilled
        /\ \A r \in RequeuersOf(b) :
              requeuers[r].state = "done" => blocks[b].size = 0

\* C14: a requeuer re-enqueues every descriptor of its block exactly once,
\* in descending index order, however often and wherever it yields, and it
\* finishes if the queue has room again and again.
C14_RequeueExactlyOnce ==
    /\ []RequeuedDescending
    /\ \A r \in 1..MaxSpills :
          (r \in DOMAIN requeuers) ~>
              (r \in DOMAIN requeuers /\ requeuers[r].state = "done")

\* A requeuer of a block of three descriptors finished after yielding twice.
C14_Witness ==
    \E r \in DOMAIN requeuers :
        /\ requeuers[r].state = "done"
        /\ requeuers[r].yields = 2
        /\ blocks[requeuers[r].descs].spilled = 3
        /\ Cardinality(LogOf(requeuers[r].descs)) = 3

EaLength == eaCfg.last - eaCfg.first

\* enqueue_all has returned and every task it led to has run
EaFinished == eaPhase = "run" /\ eaTasks = EmptyBag

\* The user's enqueue lambda was called at most once per position and only
\* with positions of [first, last); once every task has run it was called
\* with every position of [first, last).
EaExactlyOnce ==
    /\ \A p \in BagToSet(eaCalls) :
          CopiesIn(p, eaCalls) = 1 /\ p \in eaCfg.first..(eaCfg.last - 1)
    /\ EaFinished => BagToSet(eaCalls) = eaCfg.first..(eaCfg.last - 1)

\* C16: the tree variants of enqueue_all call the enqueue lambda exactly
\* once for each position of [first, last), for every range length, every
\* MaxBaseEnqs and every order the enqueuer tasks run in; for an empty range
\* the lambda is never called.
C16_TreeExactlyOnce ==
    eaCfg.variant \in {"stateful", "stateless", "tsfn"} =>
        /\ EaExactlyOnce
        /\ EaLength = 0 => eaCalls = EmptyBag

\* A tree of enqueuers with a fanout of eight has run to the end on a range
\* that does not divide evenly.
C16_Witness ==
    /\ eaCfg.variant = "tsfn"
    /\ ~eaCfg.seq /\ ~eaCfg.twoWay
    /\ eaCfg.MaxBaseEnqs = 1
    /\ EaLength > (max_children * max_children) \div 2
    /\ EaLength % max_children # 0
    /\ EaFinished
    /\ BagCardinality(eaCalls) = EaLength

\* C17: in the strand variant, on a range of at least maxstrands *
\* EnqueuesPerTask items, the slices of all strand tasks partition [first,
\* last): the enqueue lambda is called exactly once for each position.
C17_StrandsPartition ==
    (eaCfg.variant = "strands"
     /\ EaLength >= ea_maxstrands(eaCfg) * eaCfg.EnqueuesPerTask) =>
        EaExactlyOnce

\* Three strands of two items per task have covered a range of odd length
\* longer than one round of the strands.
C17_Witness ==
    /\ eaCfg.variant = "strands"
    /\ eaDesc.allocated
    /\ ea_maxstrands(eaCfg) = 3
    /\ eaCfg.EnqueuesPerTask = 2
    /\ EaLength > ea_maxstrands(eaCfg) * eaCfg.EnqueuesPerTask
    /\ EaLength % 2 = 1
    /\ EaFinished
    /\ BagCardinality(eaCalls) = EaLength

\* C18: in enqueue_all_progressive, on a range longer than MaxBaseEnqs, the
\* strand tasks spawned by the doubling rule cover [first, last) exactly: the
\* enqueue lambda is called exactly once for each position, for every
\* maxstride.
C18_ProgressiveCover ==
    (eaCfg.variant = "progressive" /\ EaLength > eaCfg.MaxBaseEnqs) =>
        EaExactlyOnce

\* A progressive expansion has doubled its stride, reached the cap and
\* covered a range longer than twice the cap.
C18_Witness ==
    /\ eaCfg.variant = "progressive"
    /\ ~eaCfg.seq
    /\ EaLength > eaCfg.MaxBaseEnqs
    /\ ea_maxstrands(eaCfg) = 3
    /\ eaCfg.EnqueuesPerTask = 1
    /\ EaLength > 2 * ea_maxstrands(eaCfg) * eaCfg.EnqueuesPerTask
    /\ EaFinished
    /\ BagCardinality(eaCalls) = EaLength

\* ----------------------------------------------------------------- reduce
\* reduce has been called and every task it led to has run
RedFinished == redPhase = "run" /\ redTasks = EmptyBag

\* The left-to-right fold of the operation over the identity and the
\* elements of [first, last)
RedFold == accumulate(redCfg.op, redCfg.first, redCfg.last,
                      Identity(redCfg.op))

\* Every callback enqueued so far was given the left fold of the range.
CallbackGetsFold ==
    \A i \in DOMAIN redCb : redCb[i].defined /\ redCb[i].value = RedFold

CallbackOnceSoFar ==
    redCfg.op \in {"plus", "concat"} =>
        /\ Len(redCb) <= 1
        /\ RedFinished => Len(redCb) = 1
        /\ \A i \in DOMAIN redCb :
              /\ redCb[i].ts = redCfg.ts
              /\ redCb[i].dom = 0
              /\ redCb[i].pending = 0
              /\ numTasks(redCfg) > 1 =>
                    /\ redCb[i].stat.accumulated = numTasks(redCfg)
                    /\ redCb[i].stat.updated = numTasks(redCfg)
              /\ redCfg.last = redCfg.first =>
                    redCb[i].value = Identity(redCfg.op)

\* C20: reduce enqueues its callback exactly once, with the timestamp ts it
\* was called with and in the domain the Reducer task ran in, after every
\* accumulate and updateIntermediate task has run; for an empty range the
\* callback receives the identity.
C20_CallbackOnce == []CallbackOnceSoFar /\ <>(Len(redCb) = 1)

\* The callback of a reduction over several blocks was enqueued by collapse,
\* from the domain the Reducer had created.
C20_Witness ==
    /\ redCfg.op = "concat"
    /\ numTasks(redCfg) >= 3
    /\ redStat.deepens = 1
    /\ RedFinished
    /\ Len(redCb) = 1
    /\ redCb[1].stat.updated = numTasks(redCfg)


\* ------------------------------------------------- extraction by a spiller
\* C30 as stated: the spiller makes no removal after one that returned no
\* task, and every task the remove instruction returned is stored in the
\* block, in order, and counted in the size the spiller stored, which never
\* exceeds n.
C30_NoRemovedTaskLost ==
    lastSpill.block # 0 =>
        LET b == blocks[lastSpill.block]
        IN  /\ Len(lastSpill.bounds) <= Len(b.removed) + 1
            /\ b.spilled <= lastSpill.n
            /\ b.spilled = Len(b.removed)
            /\ \A k \in 1..Len(b.removed) : b.tds[k] = b.removed[k]


\* --------------------------------------------------- task record lifetime
\* C23 as stated: once run() has returned, no task record that enqueue
\* allocated is still allocated.
C23_NoRecordLeft == pc = "done" => allocated = {}


\* ------------------------------------------------ PARENTDOMAIN enqueues
\* A step in which swarm::enqueue is called with PARENTDOMAIN while the
\* domain stack holds more than the root
ParentDomainEnqueue ==
    /\ backend = "oracle"
    /\ Len(pqs) > 1
    /\ \E ts \in TsValues : OracleEnqueueTask(ts, TRUE)

\* C24: in the oracle back-end an enqueue with PARENTDOMAIN adds the new
\* task to the queue directly below the top of the domain stack and changes
\* nothing else: the depth, the top queue and its contents, the queues
\* further down and the super-timestamp stack stay as they were.
C24_ParentDomainFrame ==
    [][ParentDomainEnqueue =>
          LET d == Len(pqs)
          IN  /\ Len(pqs') = d
              /\ pqs'[d] = pqs[d]
              /\ \A i \in 1..(d - 2) : pqs'[i] = pqs[i]
              /\ superTsStack' = superTsStack
              /\ pqs'[d - 1].ptr = pqs[d - 1].ptr
              /\ \E ts \in TsValues :
                    BagOfSeq(pqs'[d - 1].heap) =
                        BagOfSeq(pqs[d - 1].heap)
                        (+) SetToBag({TaskState(nextPtr, taskIdCounter + 1,
                                                ts)})
              /\ pc' = pc]_vars

\* A task running in a nested domain whose queue is not empty has enqueued
\* a task with PARENTDOMAIN: the queue below the top holds a task that was
\* not there when the domain was created.
C24_Witness ==
    /\ backend = "oracle"
    /\ pc = "task"
    /\ Len(pqs) > 1
    /\ ~empty(StackTop(pqs).heap)
    /\ \E t \in RecordsOf(pqs[Len(pqs) - 1].heap) :
          t.ptr \notin domHist[StackTop(pqs).ptr].parentQueued


\* A step in which swarm::enqueue is called with PARENTDOMAIN while the
\* domain stack holds only the root (which the first enqueue of the program
\* creates)
RootParentDomainEnqueue ==
    /\ backend = "oracle"
    /\ Len(pqs) <= 1
    /\ \E ts \in TsValues : OracleEnqueueTask(ts, TRUE)

\* The call aborts the program and allocates and queues nothing.
AbortsWithoutPush ==
    /\ pc' = "aborted"
    /\ QueuedPtrs(pqs') = QueuedPtrs(pqs)
    /\ allocated' = allocated

FillRange == {memCfg.first + memCfg.es * k : k \in 0..(memCfg.n - 1)}

\* Every task the fill created has run.
FillFinished ==
    /\ memCfg.alg \in {"fill", "fill_filler"}
    /\ memPhase = "run"
    /\ memTasks = <<>>

\* No element outside [first, last) has been written.
FillInRange == \A w \in memWritten : w.addr \in FillRange

\* Once every task has run, every element of [first, last) holds the value.
FillComplete ==
    FillFinished =>
        \A a \in FillRange : [addr |-> a, val |-> memCfg.value] \in memWritten

\* C21 as stated: for every length, start address and grain size, no task
\* of fill(first, last, v, ts) writes outside [first, last), and once all of
\* them have run every element of [first, last) equals v.
C21_FillExact ==
    memCfg.alg \in {"fill", "fill_filler"} => (FillInRange /\ FillComplete)

\* The byte ranges [source, source + bytes) and [dest, dest + bytes) of the
\* call have a byte in common
CopyRangesOverlap ==
    (memCfg.src..(memCfg.src + memCfg.n - 1)) \cap
        (memCfg.first..(memCfg.first + memCfg.n - 1)) # {}

CopyCall == memCfg.alg = "copy" /\ Copy

\* C26: copy aborts, with no task enqueued, exactly when the byte ranges
\* [source, source + bytes) and [dest, dest + bytes) overlap; for ranges that
\* do not overlap it enqueues exactly one __copier task, at timestamp ts,
\* over the whole destination.
C26_CopyAbortsIffOverlap ==
    [][CopyCall =>
          /\ (memPhase' = "aborted") <=> CopyRangesOverlap
          /\ CopyRangesOverlap => memTasks' = <<>>
          /\ ~CopyRangesOverlap =>
                /\ memPhase' = "run"
                /\ Len(memTasks') = 1
                /\ memTasks'[1].fn = "__copier"
                /\ memTasks'[1].ts = memCfg.ts
                /\ memTasks'[1].first = memCfg.first
                /\ memTasks'[1].last = memCfg.first + memCfg.n
                /\ memTasks'[1].src = memCfg.src]_vars

\* copy has aborted on ranges that share exactly one byte, the last of the
\* source and the first of the destination; nothing was enqueued or written
C26_Witness ==
    /\ memCfg.alg = "copy"
    /\ memPhase = "aborted"
    /\ memCfg.n > 1
    /\ memCfg.src + memCfg.n - 1 = memCfg.first
    /\ memTasks = <<>>
    /\ memWritten = {}

\* The values written to worker w's minTs, in order
MinTsWritten(w) == [i \in DOMAIN minTsLog[w] |-> minTsLog[w][i].v]

\* C29 as stated: in the TLS back-end the successive values written to one
\* worker's minTs never decrease, across the worker's dequeues and the
\* enqueues made by the tasks it runs.
C29_MinTsWritesMonotone ==
    backend = "tls" =>
        \A w \in Workers : \A i \in DOMAIN minTsLog[w] :
            i > 1 => MinTsWritten(w)[i - 1] <= MinTsWritten(w)[i]

\* C29, amended: every write an enqueue makes to the worker's minTs lowers
\* it, to the timestamp enqueued; the write tlsTask makes after its dequeue
\* is at least the timestamp of the task dequeued, and may be above or below
\* the value it replaces.
C29_EnqueueLowersMinTs ==
    backend = "tls" =>
        \A w \in Workers : \A i \in DOMAIN minTsLog[w] :
            LET e == minTsLog[w][i]
            IN  /\ e.kind = "enqueueTask" =>
                      /\ i > 1
                      /\ e.v < MinTsWritten(w)[i - 1]
                      /\ e.v = e.ts
                /\ e.kind = "tlsTask" => e.v >= e.ts

\* On one worker a dequeue wrote minTs, an enqueue of the task dequeued, at
\* a timestamp not below that task's, lowered it, and the next dequeue
\* raised it again.
C29_Witness ==
    /\ backend = "tls"
    /\ \E w \in Workers : \E i \in DOMAIN minTsLog[w] :
          /\ i > 2
          /\ minTsLog[w][i - 2].kind = "tlsTask"
          /\ minTsLog[w][i - 1].kind = "enqueueTask"
          /\ minTsLog[w][i - 1].ts >= minTsLog[w][i - 2].ts
          /\ minTsLog[w][i].kind = "tlsTask"
          /\ minTsLog[w][i].v > minTsLog[w][i - 1].v

\* The records of the tasks invoked so far
TlsInvoked == {log[i].ptr : i \in DOMAIN log}

\* C27: in the TLS back-end with two or more workers every task enqueued is
\* invoked exactly once (never twice, and at the return of run() once),
\* a task is either still in the queue or has been invoked, and dequeueTop
\* is never executed on an empty queue, in every order in which the
\* workers' tlsTasks run.
C27_TlsExactlyOnce ==
    (backend = "tls" /\ NumWorkers >= 2) =>
        /\ pc # "crashed"
        /\ \A i, j \in DOMAIN log : log[i].ptr = log[j].ptr => i = j
        /\ TlsInvoked \cap {t.ptr : t \in RecordsOf(pq)} = {}
        /\ TlsInvoked \cup {t.ptr : t \in RecordsOf(pq)} = 1..(nextPtr - 1)
        /\ pc = "done" => TlsInvoked = 1..(nextPtr - 1)

\* run() has returned after the workers invoked MaxTlsTasks tasks, some
\* enqueued by tasks; two workers invoked tasks and the last tlsTask of each
\* worker found the queue empty.
C27_Witness ==
    /\ backend = "tls"
    /\ pc = "done"
    /\ Len(log) = MaxTlsTasks
    /\ enqueuedByMain < MaxTlsTasks
    /\ \E i, j \in DOMAIN log : log[i].worker # log[j].worker
    /\ \A w \in Workers : hwq[w] = NoHwTask

\* Worker w's chain of tlsTasks is live: a tlsTask of w is pending or running
TlsLive(w) == hwq[w] # NoHwTask

\* C28: in the TLS back-end, whenever the shared queue is non-empty during
\* run() some worker's dequeue chain is live; a worker whose tlsTask found
\* the queue empty has no tlsTask any more and never dequeues again; and all
\* the same every task enqueued is eventually dequeued.
C28_TlsEventuallyDequeued ==
    /\ []((backend = "tls" /\ pc = "loop" /\ ~empty(pq)) =>
             \E w \in Workers : TlsLive(w))
    /\ [][(backend = "tls" /\ pc = "loop") =>
             \A w \in Workers : ~TlsLive(w) =>
                /\ ~TlsLive(w)'
                /\ \A i \in DOMAIN log' : i > Len(log) => log'[i].worker # w
         ]_vars
    /\ \A p \in 1..MaxTlsTasks :
          (backend = "tls" /\ p \in allocated) ~> (p \in TlsInvoked)

\* One worker's tlsTask has found the queue empty and the worker has stopped,
\* after both workers dequeued tasks, while another worker's tlsTask is
\* still pending.
C28_Witness ==
    /\ backend = "tls"
    /\ pc = "loop"
    /\ \E w, o \in Workers :
          /\ ~TlsLive(w)
          /\ TlsLive(o)
          /\ \E i, j \in DOMAIN log : log[i].worker = w /\ log[j].worker = o
    /\ Len(log) >= 3

\* The indices of the range [first, sup) of the forall
FaRange == faCfg.first..(faCfg.first + faCfg.n - 1)

\* Every task of the forall has run
FaFinished == faPhase \in {"run", "done"} /\ faTasks = EmptyBag

\* The forall at hand is one whose strands never step past the largest
\* value of IterType
FaNoWrap ==
    faCfg.first + faCfg.n - 1 + forall_stride(faCfg.n, faCfg.nthreads)
        <= IterTypeMax

\* bl was called at most once per index, only with indices of the range; tl
\* was called at most once, and only when bl had been called with every
\* index and no strand task was left; once every task has run, tl has been
\* called; for an empty range bl is never called.
FaExactlyOnce ==
    /\ \A i \in BagToSet(faBody) : CopiesIn(i, faBody) = 1
    /\ BagToSet(faBody) \subseteq FaRange
    /\ faTerm <= 1
    /\ faTerm = 1 =>
          /\ BagToSet(faBody) = FaRange
          /\ \A t \in BagToSet(faTasks) : t.fn # "strand"
    /\ FaFinished => faTerm = 1
    /\ faCfg.n = 0 => faBody = EmptyBag /\ faTasks = EmptyBag

\* The same for the calls whose strands stay below the largest value of
\* IterType
FaExactlyOnceNoWrap == (faPhase # "idle" /\ FaNoWrap) => FaExactlyOnce

\* C22: forall calls the body lambda exactly once for each i in [first, sup)
\* and the termination lambda exactly once, only after every call of the
\* body has returned, for every number of strands and every order in which
\* the strands' tasks and counter increments run; for an empty range only
\* the termination lambda runs.
C22_ForallExactlyOnce == faPhase # "idle" => FaExactlyOnce

\* The last spiller run removed a task without timestamp with its k-th call
\* of the remove instruction
RemovedNonTimestamped(k) ==
    /\ k \in DOMAIN lastSpill.removed
    /\ HasFlag(lastSpill.removed[k].taskPtrAndFlags, NOTIMESTAMP)

\* C31: once a non-frame spiller has removed a task without timestamp, every
\* later call of the remove instruction in the same run passes the bound 0,
\* and every task removed afterwards is without timestamp or has timestamp 0.
C31_BoundZeroAfterNonTimestamped ==
    ~lastSpill.isFrame =>
        \A k \in DOMAIN lastSpill.removed :
            RemovedNonTimestamped(k) =>
                /\ \A j \in DOMAIN lastSpill.bounds :
                       j > k => lastSpill.bounds[j] = 0
                /\ \A j \in DOMAIN lastSpill.removed :
                       j > k => \/ RemovedNonTimestamped(j)
                                \/ lastSpill.removed[j].ts = 0

\* A non-frame spiller removed a task without timestamp, then a task with
\* timestamp 0 under the bound 0, and its third call, again with the bound 0,
\* left a task with a later timestamp queued.
C31_Witness ==
    /\ ~lastSpill.isFrame
    /\ Len(lastSpill.removed) = 2
    /\ RemovedNonTimestamped(1)
    /\ ~RemovedNonTimestamped(2)
    /\ lastSpill.removed[2].ts = 0
    /\ Len(lastSpill.bounds) = 3
    /\ lastSpill.bounds[2] = 0
    /\ lastSpill.bounds[3] = 0
    /\ \E i \in DOMAIN hwTasks :
          /\ ~HasFlag(hwTasks[i].taskPtrAndFlags, NOTIMESTAMP)
          /\ hwTasks[i].ts > 0

\* The progressive strand tasks that are queued
ProgressiveStrands == {t \in BagToSet(eaTasks) : t.fn = "progressive"}

\* The number of progressive strand tasks queued at once
ProgressiveBreadth ==
    BagCardinality([t \in ProgressiveStrands |-> CopiesIn(t, eaTasks)])

\* The stride of every queued progressive strand task is at most maxstrands *
\* EnqueuesPerTask, and at most maxstrands of them are queued at once.
ProgressiveWithinCap ==
    /\ \A t \in ProgressiveStrands :
          t.stride <= ea_maxstrands(eaCfg) * eaCfg.EnqueuesPerTask
    /\ ProgressiveBreadth <= ea_maxstrands(eaCfg)

\* C32: in enqueue_all_progressive the stride of every strand task is at most
\* maxstrands * EnqueuesPerTask and at most maxstrands = min(4 * num_threads,
\* MaxStrands) strands exist at once, for every value of maxstrands, a power
\* of two or not.
C32_ProgressiveWithinCap ==
    eaCfg.variant = "progressive" => ProgressiveWithinCap

\* The same for the values of maxstrands that are powers of two
ProgressiveWithinCapPow2 ==
    (eaCfg.variant = "progressive"
     /\ ea_maxstrands(eaCfg) = Shl1(ilog2(ea_maxstrands(eaCfg)))) =>
        ProgressiveWithinCap

\* The start of the last slice of EnqueuesPerTask positions of [first, last)
EaLastBegin ==
    eaCfg.first + ((EaLength - 1) \div eaCfg.EnqueuesPerTask)
                      * eaCfg.EnqueuesPerTask

\* The queued cleanup tasks, as a bag
EaDelTasks ==
    [t \in {u \in BagToSet(eaTasks) : u.fn = "del"} |-> CopiesIn(t, eaTasks)]

EaNoReadAfterDelete == ~eaDesc.readAfterDelete

\* reduce has not ended the program, has enqueued the callback at most once,
\* with the fold of the range, and exactly once when no task is left.
SeqReduceCompleted ==
    /\ pc # "aborted"
    /\ Len(redCb) <= 1
    /\ CallbackGetsFold
    /\ RedFinished => Len(redCb) = 1

\* C34: under the sequential back-end reduce(first, last, id, op, ts, cb)
\* over a range of any length, shorter or longer than one block, runs to
\* completion and invokes the callback exactly once with the fold of the
\* range.
C34_SeqReduceCompletes ==
    (backend = "seq" /\ redPhase = "run") => SeqReduceCompleted

\* The same for the ranges that fit one block
SeqReduceOneBlock ==
    (backend = "seq" /\ redPhase = "run" /\ numTasks(redCfg) = 1) =>
        SeqReduceCompleted

\* reduce over the five 4-byte elements 1, 2, 3, 4, 5 with addition and
\* callback timestamp 10, under the sequential back-end: the callback was
\* enqueued once, with 15, at timestamp 10.
SeqReduceFiveElements ==
    /\ backend = "seq"
    /\ redCfg.op = "plus"
    /\ redCfg.last - redCfg.first = 5
    /\ redCfg.epl = SWARM_CACHE_LINE \div 4
    /\ RedFinished
    /\ Len(redCb) = 1
    /\ redCb[1].value = 15
    /\ redCb[1].ts = 10

\* The last task that ran was a __filler that split its range
FillerSplit == memLast.fn = "__filler" /\ memLast.split

\* C35: every __filler invocation that splits its range picks a midpoint with
\* first < midpoint < last, so that both children get non-empty, strictly
\* smaller sub-ranges of [first, last), for every element-aligned first
\* address, cache-line aligned or not.
C35_FillerMidpointInside ==
    FillerSplit =>
        memLast.first < memLast.midpoint /\ memLast.midpoint < memLast.last

\* The same for the invocations whose first address is cache-line aligned
FillerMidpointInsideAligned ==
    (FillerSplit /\ memLast.first % SWARM_CACHE_LINE = 0) =>
        memLast.first < memLast.midpoint /\ memLast.midpoint < memLast.last

\* The destination bytes of the copy under way
CopyDest == memCfg.first..(memCfg.first + memCfg.n - 1)

\* copy has returned and every __copier task has run
CopyFinished == memCfg.alg = "copy" /\ memPhase = "run" /\ memTasks = <<>>

\* The last task that ran was a __copier that split its range
CopierSplit == memLast.fn = "__copier" /\ memLast.split

\* C36: every __copier invocation that splits cuts the destination at a
\* cache-line boundary with 0 < leftHalfBytes < bytes, so that the recursion
\* terminates, and once all __copier tasks have run each byte of [dest, dest +
\* bytes) has been written exactly once, with the corresponding source byte,
\* for every destination alignment and length.
C36_CopierCutsAndCopies ==
    memCfg.alg = "copy" =>
        /\ CopierSplit =>
              /\ memLast.midpoint % SWARM_CACHE_LINE = 0
              /\ 0 < memLast.midpoint - memLast.first
              /\ memLast.midpoint - memLast.first
                     < memLast.last - memLast.first
        /\ memPhase \in {"call", "run"} \/ CopyRangesOverlap
        /\ ~memLast.rewrote
        /\ \A w \in memWritten :
              /\ w.addr \in CopyDest
              /\ w.val = memCfg.src + (w.addr - memCfg.first)
        /\ CopyFinished => {w.addr : w \in memWritten} = CopyDest

\* A copy of more than two cache lines to a destination that starts on the
\* last byte of a line has finished: every byte was written, the last task
\* having copied the bytes of the last line.
C36_Witness ==
    /\ CopyFinished
    /\ memCfg.first % SWARM_CACHE_LINE = SWARM_CACHE_LINE - 1
    /\ memCfg.n > 2 * SWARM_CACHE_LINE
    /\ {w.addr : w \in memWritten} = CopyDest
    /\ memLast.fn = "__copier"
    /\ ~memLast.split
    /\ memLast.last = memCfg.first + memCfg.n

\* The forall_ts at hand is one whose strands never step past the largest
\* value of IterType
FaTsNoWrap ==
    faCfg.first + faCfg.n - 1 + forall_ts_stride(faCfg.n, faCfg.nthreads)
        <= IterTypeMax

\* bl was called at most once per index, only with indices of the range; tl
\* was called at most once, with ts + 1, in place for an empty range and by a
\* task at ts + 1 otherwise, and only when bl had been called with every
\* index; once every task has run, tl has been called.
FaTsExactlyOnce ==
    /\ \A i \in BagToSet(faBody) : CopiesIn(i, faBody) = 1
    /\ BagToSet(faBody) \subseteq FaRange
    /\ faTerm <= 1
    /\ Len(faTermLog) = faTerm
    /\ \A k \in DOMAIN faTermLog :
          /\ faTermLog[k].ts = faCfg.ts + 1
          /\ faTermLog[k].direct <=> faCfg.n = 0
          /\ ~faTermLog[k].direct => faTermLog[k].taskTs = faCfg.ts + 1
    /\ faTerm = 1 => BagToSet(faBody) = FaRange
    /\ FaFinished => faTerm = 1
    /\ faCfg.n = 0 => faBody = EmptyBag /\ faTasks = EmptyBag

\* C37: forall_ts(ts, first, sup, ...) calls the body exactly once for each i
\* in [first, sup), at timestamp ts, and the termination lambda exactly once,
\* in a task at timestamp ts + 1, for every non-empty range length and every
\* number of threads; for an empty range the termination lambda is called in
\* place with ts + 1.
C37_ForallTsExactlyOnce == faPhase # "idle" => FaTsExactlyOnce

\* The same for the calls whose strands stay below the largest value of
\* IterType
FaTsExactlyOnceNoWrap == (faPhase # "idle" /\ FaTsNoWrap) => FaTsExactlyOnce

\* The termination lambda was called at most once, with the value
\* forallred_seq passes for the same arguments, and exactly once when every
\* task has run.
FaRedAsSeq ==
    /\ Len(faTermLog) <= 1
    /\ \A k \in DOMAIN faTermLog :
          faTermLog[k].value = forallred_seq(faCfg.first,
                                             faCfg.first + faCfg.n,
                                             faCfg.initialValue)
    /\ FaFinished => Len(faTermLog) = 1

\* C38: for the same body, reduction lambda (associative and commutative) and
\* initialValue, forallred and forallred_seq call the termination lambda
\* exactly once with the same final value, for every range length, lengths
\* above max_children included, and every initialValue, identity or not.
C38_ForallRedEquivalent == faPhase # "idle" => FaRedAsSeq

\* The same for the calls whose initialValue is the identity of the reduction
\* or whose range has at most max_children indices
FaRedAsSeqOneLevel ==
    (faPhase # "idle"
     /\ (faCfg.initialValue = 0 \/ faCfg.n <= max_children)) => FaRedAsSeq

\* ------------------------------------------------------------------------
\* The worker threads of the hardware and TLS back-ends (hwmisc.h)
\* ------------------------------------------------------------------------

\* Thread 0 is the main thread on its worker context, the others are the
\* pthreads launch_threads creates.
Threads == 0 .. (NumHwThreads - 1)

\* pls_worker without the barrier between zsim_roi_begin and the run-loop.
pls_worker_noSecondBarrier(isMainThread) ==
    IF isMainThread
    THEN <<"sim_stack_base", "sim_barrier", "zsim_roi_begin",
           "sim_task_dequeue_runloop", "sim_barrier", "zsim_roi_end",
           "sim_barrier", "return">>
    ELSE <<"report_pthread_stack_base", "sim_barrier",
           "sim_task_dequeue_runloop", "sim_barrier", "sim_barrier",
           "return">>

\* hwmisc.h pls_worker: the statements a thread executes, in order.  The
\* calls guarded by isMainThread are executed by the main thread only, and
\* the switch of the FS and GS registers is part of the first and of the
\* last statement.
pls_worker(isMainThread) ==
    IF isMainThread
    THEN <<"sim_stack_base", "sim_barrier", "zsim_roi_begin", "sim_barrier",
           "sim_task_dequeue_runloop", "sim_barrier", "zsim_roi_end",
           "sim_barrier", "return">>
    ELSE <<"report_pthread_stack_base", "sim_barrier", "sim_barrier",
           "sim_task_dequeue_runloop", "sim_barrier", "sim_barrier",
           "return">>

\* tls_runtime.h tls_worker: resets the thread's minTs and runs pls_worker.
tls_worker(arg) == <<"minTs = 0">> \o pls_worker(arg)

\* The function run() hands to launch_threads (swarm_runtime.h,
\* tls_runtime.h), called with 1 on the main thread's worker context and
\* with nullptr on the created threads.
workerFn(t) == IF backend = "tls" THEN tls_worker(t = 0) ELSE pls_worker(t = 0)

ThreadExists(t) == thrPc[t] > 0

ThreadFinished(t) == thrPc[t] > Len(workerFn(t))

\* The statement thread t executes next
ThreadStmt(t) ==
    IF ThreadExists(t) /\ ~ThreadFinished(t) THEN workerFn(t)[thrPc[t]]
    ELSE "none"

InitThreads ==
    /\ backend \in {"hw", "tls"}
    /\ pc = "main"
    /\ SchedVarsInit
    /\ PQOpIdle
    /\ TlsIdle
    /\ SpillIdle
    /\ EaIdle
    /\ RedIdle
    /\ MemIdle
    /\ FaIdle
    /\ thrPc = [t \in Threads |-> 0]
    /\ thrAtBarrier = {}
    /\ thrInLoop = {}
    /\ launch = [pc |-> "idle", t |-> 0]
    /\ roi = [begun |-> FALSE, ended |-> FALSE]

\* run() calls launch_threads, which reads the number of threads and
\* reaches its first loop with t = 1.
LaunchThreads ==
    /\ launch.pc = "idle"
    /\ launch' = [pc |-> "create", t |-> 1]
    /\ UNCHANGED <<thrPc, thrAtBarrier, thrInLoop, roi>>
    /\ UNCHANGED notThr

\* launch_threads, first loop: pthread_create starts thread t on workerFn.
CreateThread ==
    /\ launch.pc = "create"
    /\ launch.t < NumHwThreads
    /\ thrPc' = [thrPc EXCEPT ![launch.t] = 1]
    /\ launch' = [launch EXCEPT !.t = @ + 1]
    /\ UNCHANGED <<thrAtBarrier, thrInLoop, roi>>
    /\ UNCHANGED notThr

\* launch_threads, first loop: pthread_create fails and the program aborts.
CreateFails ==
    /\ launch.pc = "create"
    /\ launch.t < NumHwThreads
    /\ launch' = [launch EXCEPT !.pc = "aborted"]
    /\ UNCHANGED <<thrPc, thrAtBarrier, thrInLoop, roi>>
    /\ UNCHANGED notThr

\* launch_threads after the first loop: swapcontext switches the main
\* thread to the worker context, where it runs workerFn(1).
SwapContext ==
    /\ launch.pc = "create"
    /\ launch.t = NumHwThreads
    /\ thrPc' = [thrPc EXCEPT ![0] = 1]
    /\ launch' = [launch EXCEPT !.pc = "worker"]
    /\ UNCHANGED <<thrAtBarrier, thrInLoop, roi>>
    /\ UNCHANGED notThr

\* Thread t executes a statement of its worker function that is neither a
\* barrier nor the run-loop.
ThreadStep(t) ==
    /\ launch.pc # "aborted"
    /\ ThreadStmt(t) \notin {"none", "sim_barrier", "sim_task_dequeue_runloop"}
    /\ thrPc' = [thrPc EXCEPT ![t] = @ + 1]
    /\ roi' = [begun |-> roi.begun \/ ThreadStmt(t) = "zsim_roi_begin",
               ended |-> roi.ended \/ ThreadStmt(t) = "zsim_roi_end"]
    /\ UNCHANGED <<thrAtBarrier, thrInLoop, launch>>
    /\ UNCHANGED notThr

\* Thread t executes sim_barrier (hooks.h): it blocks until every one of
\* the nthreads threads has executed it, and the last to arrive releases
\* them all.
SimBarrier(t) ==
    /\ launch.pc # "aborted"
    /\ ThreadStmt(t) = "sim_barrier"
    /\ t \notin thrAtBarrier
    /\ IF thrAtBarrier \cup {t} = Threads
       THEN /\ thrAtBarrier' = {}
            /\ thrPc' = [u \in Threads |-> thrPc[u] + 1]
       ELSE /\ thrAtBarrier' = thrAtBarrier \cup {t}
            /\ UNCHANGED thrPc
    /\ UNCHANGED <<thrInLoop, launch, roi>>
    /\ UNCHANGED notThr

\* Thread t enters sim_task_dequeue_runloop and starts to run tasks.
RunloopEnter(t) ==
    /\ launch.pc # "aborted"
    /\ ThreadStmt(t) = "sim_task_dequeue_runloop"
    /\ t \notin thrInLoop
    /\ thrInLoop' = thrInLoop \cup {t}
    /\ UNCHANGED <<thrPc, thrAtBarrier, launch, roi>>
    /\ UNCHANGED notThr

\* sim_task_dequeue_runloop returns on thread t.
RunloopLeave(t) ==
    /\ launch.pc # "aborted"
    /\ t \in thrInLoop
    /\ thrInLoop' = thrInLoop \ {t}
    /\ thrPc' = [thrPc EXCEPT ![t] = @ + 1]
    /\ UNCHANGED <<thrAtBarrier, launch, roi>>
    /\ UNCHANGED notThr

\* workerFn returns on the worker context, whose uc_link resumes
\* launch_threads after swapcontext, at its second loop with t = 1.
WorkerContextReturns ==
    /\ launch.pc = "worker"
    /\ ThreadFinished(0)
    /\ launch' = [pc |-> "join", t |-> 1]
    /\ UNCHANGED <<thrPc, thrAtBarrier, thrInLoop, roi>>
    /\ UNCHANGED notThr

\* launch_threads, second loop: pthread_join returns once thread t has
\* finished.
JoinThread ==
    /\ launch.pc = "join"
    /\ launch.t < NumHwThreads
    /\ ThreadFinished(launch.t)
    /\ launch' = [launch EXCEPT !.t = @ + 1]
    /\ UNCHANGED <<thrPc, thrAtBarrier, thrInLoop, roi>>
    /\ UNCHANGED notThr

\* launch_threads, and with it run(), returns.
LaunchReturns ==
    /\ launch.pc = "join"
    /\ launch.t = NumHwThreads
    /\ launch' = [launch EXCEPT !.pc = "returned"]
    /\ UNCHANGED <<thrPc, thrAtBarrier, thrInLoop, roi>>
    /\ UNCHANGED notThr

NextThreads ==
    \/ LaunchThreads
    \/ CreateThread
    \/ CreateFails
    \/ SwapContext
    \/ \E t \in Threads : ThreadStep(t)
    \/ \E t \in Threads : SimBarrier(t)
    \/ \E t \in Threads : RunloopEnter(t)
    \/ \E t \in Threads : RunloopLeave(t)
    \/ WorkerContextReturns
    \/ JoinThread
    \/ LaunchReturns

SpecThreads == InitThreads /\ [][NextThreads]_vars

\* The position of the run-loop in the worker function of thread t
RunloopAt(t) ==
    CHOOSE i \in 1..Len(workerFn(t)) :
        workerFn(t)[i] = "sim_task_dequeue_runloop"

\* Thread t has entered the run-loop
EnteredRunloop(t) == t \in thrInLoop \/ thrPc[t] > RunloopAt(t)

\* Thread t has left the run-loop
LeftRunloop(t) == t \notin thrInLoop /\ thrPc[t] > RunloopAt(t)

\* C39: in the hardware and TLS back-ends, whatever the interleaving of
\* the threads, no thread has entered the task dequeue run-loop before the
\* main thread executed zsim_roi_begin, zsim_roi_end is executed only when
\* every thread has left the run-loop, and run() has returned only when
\* every thread has finished its worker function.
C39_RoiBracketsRunloop ==
    /\ \A t \in Threads : EnteredRunloop(t) => roi.begun
    /\ roi.ended => \A t \in Threads : LeftRunloop(t)
    /\ launch.pc = "returned" => \A t \in Threads : ThreadFinished(t)

\* run() has returned after the region of interest was begun and ended.
C39_Witness ==
    /\ launch.pc = "returned"
    /\ roi.begun
    /\ roi.ended
    /\ \A t \in Threads : ThreadFinished(t)

=============================================================================
